---- MODULE Spec2Model ----
(***************************************************************************)
(* A model of dura: the snapshot engine (snapshots.rs), the consolidator   *)
(* (octopus.rs), the change guard (poll_guard.rs), the poll loop           *)
(* (poller.rs) and the runtime lock (database.rs, main.rs).                *)
(*                                                                         *)
(* A repository is a list of commits (the object database), HEAD, the      *)
(* user's branch, the snapshot branches refs/heads/dura/<oid>, the tags    *)
(* refs/tags/dura/cold/<n> and refs/tags/dura/cold, and the working tree.  *)
(* An object id is the position of the commit in the list; like a git      *)
(* hash it is a function of the commit's content, so writing a commit      *)
(* that is already in the database returns the id it already has.          *)
(* Time is counted in half seconds: a commit stores whole seconds, a file  *)
(* modification time keeps the half second.                                *)
(***************************************************************************)
EXTENDS Integers, Sequences, FiniteSets, TLC

\* ---------------------------------------------------------------- bounds
\* Commits the object database holds in the snapshot runs.
MaxCommits == 3
\* Working-tree contents are 0..MaxContent.
MaxContent == 1
\* The clock stops at MaxTime half seconds.
MaxTime == 4
\* Daemon processes that are started; a daemon's pid is its number.
NumDaemons == 2
\* Snapshot branches that create_n_branches makes.
MaxBranches == 4
\* Merge commits the object database holds after create_n_branches.
MaxMerges == 4
\* The highest n of a tag dura/cold/<n>.
MaxTags == 3
\* num_parents is given as none or as 0..MaxParents.
MaxParents == 2
\* num_uncompressed is given as none or as 0..MaxUncompressed.
MaxUncompressed == 1

\* Object ids that can be HEAD: the first commit and two commits for each round
\* of create_n_branches.
MaxObjects == 2 * MaxBranches + 1
Oids == 1..MaxObjects
TagIndices == 1..MaxTags
Daemons == 1..NumDaemons
Contents == 0..MaxContent
None == 0

\* Local branch names, split at "/": refs/heads/master and refs/heads/dura/<oid>.
MASTER == <<"master">>
BranchNames == {MASTER} \cup {<<"dura", o>> : o \in Oids}

VARIABLES
    commits,    \* the object database: oid -> [parents, tree, time, message]
    head,       \* the commit HEAD resolves to
    branches,   \* refs/heads/*: name -> tip, None when the branch does not exist
    tags,       \* refs/tags/dura/cold/<n>: n -> commit, None when absent
    cold,       \* refs/tags/dura/cold, None when absent
    worktree,   \* content of the working tree (untracked files included, ignored files not)
    noise,      \* status reports entries that add nothing to the tree (ignored files)
    merging,    \* the repository is in a conflicted merge
    mtime,      \* newest modification time under the repository directory, in half seconds
    now,        \* wall clock, in half seconds
    last,       \* the last operation, what it returned, and what the one before returned
    git_cache,  \* PollGuard.git_cache: the guard holds an open handle of the repository
    lock_file,  \* the file the runtime lock is kept in
    pc,         \* where each daemon process is: off, start, sleep, tick, exited
    exit_code,  \* the exit code of each daemon that has exited, -1 before
    kill_pc,    \* where the kill command is: idle, truncated
    lost,       \* history: the lock was overwritten by someone else while the daemon ran
    left_alone, \* the user has made the last edit
    config_file, \* the file the configuration is kept in
    git_config, \* user.name and user.email of the repository's git configuration
    cycle_count, \* CachedFs.cycle_count
    fs,         \* the directories around the watched ones: path -> none, file, dir, repo
    watch,      \* Config.repos in key order: [path, watch_config]
    config_iter, \* GitRepoIter.config_iter: the next entry of Config.repos
    sub_iter,   \* GitRepoIter.sub_iter: a stack of [base_path, watch_config, dir_iter]
    cache,      \* CachedFs.cache: path -> cache item
    found,      \* the paths the iterator has yielded in this pass
    call        \* what the last call of get_next returned, and the number of the pass

vars == <<commits, head, branches, tags, cold, worktree, noise, merging, mtime, now, last,
          git_cache, lock_file, pc, exit_code, kill_pc, lost, left_alone,
          config_file, git_config, fs, cycle_count, watch, config_iter, sub_iter, cache, found, call>>

\* What the snapshot engine and the user's commands leave alone.
\* The configuration file, the directories and the iterator over them.
diskVars == <<config_file, git_config, fs, cycle_count, watch, config_iter, sub_iter, cache, found, call>>
lockVars == <<lock_file, pc, exit_code, kill_pc, lost, left_alone>>
aux == <<git_cache, lock_file, pc, exit_code, kill_pc, lost, left_alone,
         config_file, git_config, fs, cycle_count, watch, config_iter, sub_iter, cache, found, call>>

\* ------------------------------------------------------- object database
USER_MESSAGE == "test"
SNAPSHOT_MESSAGE == "dura auto-backup"
COMPACT_MESSAGE == "dura compacted commit"

Seconds(t) == t \div 2

Exists(cs, c) == \E i \in 1..Len(cs) : cs[i] = c

\* The id of commit c once it is written to database cs.
OidOf(cs, c) == IF Exists(cs, c) THEN CHOOSE i \in 1..Len(cs) : cs[i] = c ELSE Len(cs) + 1

\* The database after commit c is written to it.
Written(cs, c) == IF Exists(cs, c) THEN cs ELSE Append(cs, c)

Tree(c) == commits[c].tree

\* ------------------------------------------------------ snapshots.rs
\* Mutant: a status that leaves ignored and untracked entries out.
statuses_is_empty_tracked == worktree = Tree(head)

\* repo.statuses(None)?.is_empty(): HEAD, index and working tree agree and
\* nothing ignored or untracked is reported.
statuses_is_empty == worktree = Tree(head) /\ ~noise

\* format!("dura/{}", head.id())
branch_name(h) == <<"dura", h>>

\* The match on find_branch: the tip of the branch when it exists and is
\* not HEAD itself, else nothing.
branch_commit(br, h) ==
    IF br[branch_name(h)] # None /\ br[branch_name(h)] # h THEN br[branch_name(h)] ELSE None

\* A cleaning that deletes the branch whatever it holds.
after_clean_any(br, h) == [br EXCEPT ![branch_name(h)] = None]

\* The arm that cleans a branch that exists but holds no snapshot.
after_clean(br, h) ==
    IF br[branch_name(h)] # None /\ branch_commit(br, h) = None
    THEN [br EXCEPT ![branch_name(h)] = None]
    ELSE br

\* Mutant: a detached HEAD is taken for the tip of the user's branch.
parent_commit_master(br, h) ==
    IF branch_commit(br, h) # None THEN branch_commit(br, h) ELSE br[MASTER]

\* Mutant: the parent is HEAD even when the branch holds snapshots.
parent_commit_head(br, h) == h

\* branch_commit.as_ref().unwrap_or(&head)
parent_commit(br, h) == IF branch_commit(br, h) # None THEN branch_commit(br, h) ELSE h

\* Mutant: the diff is taken against HEAD, not against the chosen parent.
dirty_diff_is_empty_head(p) == worktree = Tree(head)

\* dirty_diff.deltas().len() == 0: the index built from the working tree
\* against the tree of the chosen parent.
dirty_diff_is_empty(p) == worktree = Tree(p)

\* repo.branch(name, &head, false) when find_branch fails.
after_branch(br, h) ==
    IF br[branch_name(h)] = None THEN [br EXCEPT ![branch_name(h)] = h] ELSE br

\* A snapshot that has HEAD as a second parent.
snapshot_commit_on_head(p) ==
    [parents |-> <<p, head>>, tree |-> worktree, time |-> Seconds(now),
     message |-> SNAPSHOT_MESSAGE]

\* The commit capture writes.
snapshot_commit(p) ==
    [parents |-> <<p>>, tree |-> worktree, time |-> Seconds(now), message |-> SNAPSHOT_MESSAGE]

\* Mutant: the commit is written to the user's branch.
after_commit_master(br, h, oid) == [br EXCEPT ![MASTER] = oid]

\* repo.commit(Some("refs/heads/<branch_name>"), ..): the ref moves to the new commit.
after_commit(br, h, oid) == [br EXCEPT ![branch_name(h)] = oid]

\* Where a call of capture fails, one name for each stretch of calls that
\* leave the same refs behind: before the status ("open": Repository::open,
\* head, peel_to_commit, statuses), at branch.delete ("delete"), up to the
\* diff ("add_all": index, add_all, tree, diff_tree_to_index), up to the
\* creation of the branch ("write_tree": write_tree, find_tree, branch), and
\* after it ("commit": get_committer, commit). "none": no call fails.
EarlyFailures == {"open"}
MidFailures == {"add_all"}
LateFailures == {"write_tree"}
CommitFailures == {"commit"}
Failures == {"none", "delete"} \cup EarlyFailures \cup MidFailures \cup LateFailures \cup CommitFailures

\* get_committer unwraps the parse of GIT_COMMITTER_DATE: with a date that
\* is neither RFC 3339 nor RFC 2822 the call does not return, it panics
\* ("date"), after the branch was created.
Panics == {"date"}

Result(op, res, br, c, base) ==
    [op |-> op, res |-> res, dura_branch |-> br, commit_hash |-> c, base_hash |-> base,
     prev |-> IF op = "capture" /\ last.op = op /\ last.res = "some" THEN "some" ELSE "-"]

Other(op) == Result(op, "-", <<>>, None, None)

\* capture returns `res` with the local branches `br`; it writes nothing else.
Return(res, br) ==
    /\ branches' = br
    /\ last' = Result("capture", res, <<>>, None, None)
    /\ UNCHANGED <<commits, head, tags, cold, worktree, noise, merging>>

capture(fail, limit) ==
    LET cleaned == after_clean(branches, head)
        parent == parent_commit(branches, head)
        created == after_branch(cleaned, head)
        new == snapshot_commit(parent)
        oid == OidOf(commits, new)
    IN
    IF fail \in EarlyFailures THEN Return("err", branches)
    ELSE IF statuses_is_empty THEN Return("none", branches)
    ELSE IF fail = "delete" /\ cleaned # branches THEN Return("err", branches)
    ELSE IF fail \in MidFailures THEN Return("err", cleaned)
    ELSE IF dirty_diff_is_empty(parent) THEN Return("none", cleaned)
    ELSE IF fail \in LateFailures THEN Return("err", cleaned)
    ELSE IF fail \in Panics THEN Return("panic", created)
    ELSE IF fail \in CommitFailures THEN Return("err", created)
    ELSE /\ oid <= limit
         /\ commits' = Written(commits, new)
         /\ branches' = after_commit(created, head, oid)
         /\ last' = Result("capture", "some", branch_name(head), oid, head)
         /\ UNCHANGED <<head, tags, cold, worktree, noise, merging>>

\* ------------------------------------------------------------ the clock
\* Writing under the repository directory stamps what is written with the
\* time of writing.
Touch == mtime' = now /\ UNCHANGED now

\* Half a second passes.
Tick ==
    /\ now < MaxTime
    /\ now' = now + 1
    /\ UNCHANGED <<commits, head, branches, tags, cold, worktree, noise, merging, mtime, last>>
    /\ UNCHANGED aux

\* A second passes.
Second ==
    /\ now + 2 <= MaxTime
    /\ now' = now + 2
    /\ UNCHANGED <<commits, head, branches, tags, cold, worktree, noise, merging, mtime, last>>
    /\ UNCHANGED aux

\* The files under .git are stamped when a ref or a commit has been written.
Stamp ==
    IF branches' # branches \/ commits' # commits \/ tags' # tags \/ cold' # cold
    THEN Touch
    ELSE UNCHANGED <<mtime, now>>

\* One call of capture, any one of its calls failing or none.
CaptureIn(limit) ==
    /\ \E fail \in Failures : capture(fail, limit)
    /\ Stamp
    /\ UNCHANGED aux

Capture == CaptureIn(MaxCommits)

\* ------------------------------------------------------------- the user
\* The user rewrites a file.
EditThen(bye) ==
    /\ \E c \in Contents \ {worktree} : worktree' = c
    /\ Touch
    /\ last' = Other("user")
    /\ left_alone' = (left_alone \/ bye)
    /\ UNCHANGED <<commits, head, branches, tags, cold, noise, merging>>
    /\ UNCHANGED <<git_cache, lock_file, pc, exit_code, kill_pc, lost>>
    /\ UNCHANGED diskVars

Edit == EditThen(FALSE)

\* The user creates a file that the repository ignores.
Ignore ==
    /\ ~noise /\ noise' = TRUE
    /\ Touch
    /\ last' = Other("user")
    /\ UNCHANGED <<commits, head, branches, tags, cold, worktree, merging>>
    /\ UNCHANGED aux

\* git add . && git commit: a new commit on the user's branch.
UserCommitIn(limit) ==
    LET new == [parents |-> <<head>>, tree |-> worktree, time |-> Seconds(now),
                message |-> USER_MESSAGE]
    IN /\ ~Exists(commits, new)
       /\ Len(commits) < limit
       /\ commits' = Append(commits, new)
       /\ head' = Len(commits) + 1
       /\ branches' = [branches EXCEPT ![MASTER] = Len(commits) + 1]
       /\ merging' = FALSE
       /\ Touch
       /\ last' = Other("user")
       /\ UNCHANGED <<tags, cold, worktree, noise>>
       /\ UNCHANGED aux

UserCommit == UserCommitIn(MaxCommits)

\* git checkout <commit>: HEAD moves to any commit of the database, and the
\* working tree either follows or keeps the user's edits.
Checkout ==
    /\ \E c \in 1..Len(commits) :
        /\ c # head
        /\ head' = c
        /\ \/ worktree' = commits[c].tree
           \/ worktree' = worktree
    /\ Touch
    /\ last' = Other("user")
    /\ UNCHANGED <<commits, branches, tags, cold, noise, merging>>
    /\ UNCHANGED aux

\* git merge stops on a conflict, leaving conflict markers in the working tree.
Merge ==
    /\ ~merging /\ merging' = TRUE
    /\ \E c \in Contents \ {worktree} : worktree' = c
    /\ Touch
    /\ last' = Other("user")
    /\ UNCHANGED <<commits, head, branches, tags, cold, noise>>
    /\ UNCHANGED aux

\* ------------------------------------------------------ the file system
\* Directories nested in the watched directory r: r/a, r/a/b, ...
MaxChain == 3
\* Passes of GitRepoIter over the watch set in one run.
MaxPasses == 2
\* CachedFs::new: max_lifetime, in half seconds.
MaxLifetime == 2
\* How far past max_lifetime the clock of the cache runs goes.
MaxSleeps == 2
\* CachedFs::new(50 ms, 5 ms) of the tests: max_lifetime and
\* expected_interval give max_sig_ticks, the number of buckets.
TEST_MAX_LIFETIME == 50
TEST_EXPECTED_INTERVAL == 5
max_sig_ticks == (TEST_MAX_LIFETIME \div 4) \div TEST_EXPECTED_INTERVAL

\* WatchConfig::new: max_depth
DEFAULT_MAX_DEPTH == 255

\* A path is the sequence of its components below the directory that holds
\* the watched directories (the temporary directory of the tests).
TMP == <<>>
ChainNames == <<"a", "b", "c", "d", "e">>
Chain(k) == <<"r">> \o SubSeq(ChainNames, 1, k)

\* Every path there can be, in the order read_dir lists them: r, r/a,
\* r/a/b, ..., r/x and s.
Listing == <<<<"r">>>> \o [k \in 1..MaxChain |-> Chain(k)] \o <<<<"r", "x">>, <<"s">>>>
Paths == {Listing[i] : i \in 1..Len(Listing)}

\* A file name that is not valid Unicode (any bytes can name a file), and the
\* directory r with an entry of that name.
NonUnicode == {"0xFF"}
Raw == <<"r", "0xFF">>

\* OsString::into_string: the name as a String, or nothing.
into_string(name) == IF name \in NonUnicode THEN <<>> ELSE <<name>>

\* Path::parent
parent(p) == SubSeq(p, 1, Len(p) - 1)

\* Path::starts_with, by whole components.
starts_with(p, base) == Len(base) <= Len(p) /\ SubSeq(p, 1, Len(base)) = base

\* Path::join of a relative path.
join(base, rel) == base \o rel

\* WatchConfig::new
WatchConfig_new == [include |-> <<>>, exclude |-> <<>>, max_depth |-> DEFAULT_MAX_DEPTH]

\* The one repository of the snapshot runs, watched with the default
\* configuration, as `dura watch` in the repository sets it up.
OneRepo == [p \in Paths |-> IF p = <<"r">> THEN "repo" ELSE "none"]
WatchOneRepo == <<[path |-> <<"r">>, watch_config |-> WatchConfig_new]>>

\* A path the cache has no item for, and the item a miss puts in:
\* children is None (not listed) until an entry of the directory is read.
NoItem == [present |-> FALSE, listed |-> FALSE, children |-> <<>>, ttl |-> 0]
NewCacheItem(ttl) == [present |-> TRUE, listed |-> FALSE, children |-> <<>>, ttl |-> ttl]
EmptyCache == [p \in Paths \cup {TMP} |-> NoItem]

\* CallState, with the number of the pass; NotCalled before the first call.
NotCalled(pass) == [state |-> "New", path |-> <<>>, pass |-> pass]
Yield(path, pass) == [state |-> "Yield", path |-> path, pass |-> pass]
Recurse(pass) == [state |-> "Recurse", path |-> <<>>, pass |-> pass]
Finished(pass) == [state |-> "Done", path |-> <<>>, pass |-> pass]

\* The git configuration the repository sees: user.name and user.email,
\* <<>> when not set; what GitRepo::init sets, and what there can be.
TestGitConfig == [user_name |-> <<"duratest">>, user_email |-> <<"duratest@dura.io">>]
GitConfigs ==
    [user_name : {<<>>, <<"git-author">>}, user_email : {<<>>, <<"git@someemail.com">>}]

\* A TOML document: each key of Config with its value, <<>> when the
\* document does not have the key.
NoDocument ==
    [commit_exclude_git_config |-> <<>>, commit_author |-> <<>>, commit_email |-> <<>>,
     repos |-> <<>>]
Documents ==
    [commit_exclude_git_config : {<<>>, <<FALSE>>, <<TRUE>>},
     commit_author : {<<>>, <<"dura">>},
     commit_email : {<<>>, <<"dura@github.io">>},
     repos : {<<>>, <<<<>>>>, <<WatchOneRepo>>}]

\* The configuration file: missing, a TOML document, or bytes that are no
\* TOML.
NoConfigFile == [kind |-> "missing", doc |-> NoDocument]
ConfigFiles ==
    {NoConfigFile, [kind |-> "garbage", doc |-> NoDocument]}
    \cup {[kind |-> "toml", doc |-> d] : d \in Documents}

\* Config::empty; an Option is <<>> for None and <<v>> for Some(v).
Config_empty ==
    [commit_exclude_git_config |-> FALSE, commit_author |-> <<>>, commit_email |-> <<>>,
     repos |-> <<>>]

Ok(value) == [ok |-> TRUE, value |-> value]
Err(value) == [ok |-> FALSE, value |-> value]

\* Config::load_file: File::open and read_to_end fail on a missing file;
\* toml::from_slice fails on bytes that are no TOML and on a document
\* without the key repos; commit_exclude_git_config has a serde default.
Config_load_file(file) ==
    IF file.kind # "toml" \/ file.doc.repos = <<>>
    THEN Err(Config_empty)
    ELSE Ok([commit_exclude_git_config |->
                 IF file.doc.commit_exclude_git_config = <<>> THEN FALSE
                 ELSE file.doc.commit_exclude_git_config[1],
             commit_author |-> file.doc.commit_author,
             commit_email |-> file.doc.commit_email,
             repos |-> file.doc.repos[1]])

\* A path as the user spells it: its components, ".." among them.
RECURSIVE resolve(_, _)
resolve(done, rest) ==
    IF rest = <<>> THEN done
    ELSE IF Head(rest) = ".." THEN resolve(parent(done), Tail(rest))
    ELSE resolve(Append(done, Head(rest)), Tail(rest))

\* fs::canonicalize: the absolute path without "..", an error when a
\* component on the way does not exist.
canonicalize(t, p) ==
    IF \A k \in 1..Len(p) :
           LET q == resolve(<<>>, SubSeq(p, 1, k))
           IN  q = TMP \/ (q \in Paths /\ t[q] # "none")
    THEN Ok(resolve(<<>>, p))
    ELSE Err(<<>>)

\* toml::to_string that writes no header for a table with no entries.
toml_to_string_no_empty_table(config) ==
    [commit_exclude_git_config |-> <<config.commit_exclude_git_config>>,
     commit_author |-> config.commit_author,
     commit_email |-> config.commit_email,
     repos |-> IF config.repos = <<>> THEN <<>> ELSE <<config.repos>>]

\* toml::to_string of a Config: a field that is None is left out, every
\* other field is written, repos as a table (an empty one for no repos).
toml_to_string(config) ==
    [commit_exclude_git_config |-> <<config.commit_exclude_git_config>>,
     commit_author |-> config.commit_author,
     commit_email |-> config.commit_email,
     repos |-> <<config.repos>>]

\* The order of the keys of repos (BTreeMap<String, _>): the paths compare
\* as Listing has them.
Position(p) == CHOOSE i \in 1..Len(Listing) : Listing[i] = p

\* BTreeMap::contains_key, get, insert and remove on repos, kept as the
\* sequence of its entries in key order.
contains_key(repos, path) == \E i \in 1..Len(repos) : repos[i].path = path
get(repos, path) ==
    IF contains_key(repos, path)
    THEN <<repos[CHOOSE i \in 1..Len(repos) : repos[i].path = path].watch_config>>
    ELSE <<>>
remove(repos, path) == SelectSeq(repos, LAMBDA e : e.path # path)
insert(repos, path, cfg) ==
    SelectSeq(repos, LAMBDA e : Position(e.path) < Position(path))
        \o <<[path |-> path, watch_config |-> cfg]>>
        \o SelectSeq(repos, LAMBDA e : Position(e.path) > Position(path))

\* Config::set_watch that replaces the specification of a watched path.
set_watch_replace(config, abs_path, cfg) ==
    [config EXCEPT !.repos = insert(config.repos, abs_path, cfg)]

\* Config::set_watch: a path that is watched already keeps what it has.
set_watch(config, abs_path, cfg) ==
    IF contains_key(config.repos, abs_path)
    THEN config
    ELSE [config EXCEPT !.repos = insert(config.repos, abs_path, cfg)]

\* Config::set_unwatch
set_unwatch(config, abs_path) ==
    [config EXCEPT !.repos = remove(config.repos, abs_path)]

\* Config::load with unwrap in place of unwrap_or_else.
Config_load_unwrap(file) ==
    LET loaded == Config_load_file(file)
    IN  [res |-> IF loaded.ok THEN "ok" ELSE "panic", value |-> loaded.value]

\* Config::load: load_file(..).unwrap_or_else(|_| Self::empty())
Config_load(file) ==
    LET loaded == Config_load_file(file)
    IN  [res |-> "ok", value |-> IF loaded.ok THEN loaded.value ELSE Config_empty]

InitDisk ==
    /\ config_file = NoConfigFile
    /\ git_config = TestGitConfig
    /\ cycle_count = 0
    /\ fs = OneRepo
    /\ watch = WatchOneRepo
    /\ config_iter = 1
    /\ sub_iter = <<>>
    /\ cache = EmptyCache
    /\ found = {}
    /\ call = NotCalled(1)

\* ---------------------------------------------------------- repository
\* repo_and_file!: a fresh repository with one commit of one file.
InitRepo ==
    /\ commits = <<[parents |-> <<>>, tree |-> 0, time |-> 0, message |-> USER_MESSAGE]>>
    /\ head = 1
    /\ branches = [b \in BranchNames |-> IF b = MASTER THEN 1 ELSE None]
    /\ tags = [n \in TagIndices |-> None]
    /\ cold = None
    /\ worktree = 0
    /\ noise = FALSE
    /\ merging = FALSE
    /\ mtime = 0
    /\ now = 0

NoOperation ==
    [op |-> "init", res |-> "-", dura_branch |-> <<>>, commit_hash |-> None,
     base_hash |-> None, prev |-> "-"]

\* No guard, no daemon and no lock file yet.
InitAux ==
    /\ git_cache = FALSE
    /\ lock_file = [kind |-> "missing", pid |-> None, len |-> 0]
    /\ pc = [d \in Daemons |-> "off"]
    /\ exit_code = [d \in Daemons |-> -1]
    /\ kill_pc = "idle"
    /\ lost = [d \in Daemons |-> FALSE]
    /\ left_alone = FALSE
    /\ InitDisk

Init ==
    /\ InitRepo
    /\ InitAux
    /\ last = NoOperation

\* The snapshot engine under a user who edits, commits and moves HEAD.
Next ==
    \/ Capture
    \/ Edit
    \/ Ignore
    \/ UserCommit
    \/ Checkout
    \/ Merge

Spec == Init /\ [][Next]_vars

\* ------------------------------------------------------------ poll_guard.rs

\* get_time: a commit's whole seconds as a point on the half-second clock.
get_time(c) == 2 * commits[c].time

\* get_watermark that does not look for the branch dura/<HEAD>.
get_watermark_head == get_time(head)

\* get_dura_time, and the fallback to the time of HEAD when the branch
\* dura/<HEAD> is not found.
get_watermark == IF branches[branch_name(head)] # None
                 THEN get_time(branches[branch_name(head)])
                 ELSE get_time(head)

\* compare_times with no slack, used to see that the slack matters.
compare_times_exact(modified, watermark) == modified >= watermark /\ modified - watermark > 0

\* compare_times: duration_since fails when the file is older than the
\* watermark and the failure counts as false; otherwise the file must be more
\* than one second (two half seconds) newer.
compare_times(modified, watermark) == modified >= watermark /\ modified - watermark > 2

\* Where get_watermark can fail: opening the repository (only when its handle
\* is not cached yet), resolving HEAD.
GuardFailures == {"none", "open", "head"}

\* dir_changed: true when the watermark cannot be computed, else whether some
\* file under the directory, so the newest one, passes compare_times.
dir_changed(fail) ==
    LET opened == git_cache \/ fail # "open"
        failed == ~opened \/ fail = "head"
        answer == failed \/ compare_times(mtime, get_watermark)
    IN /\ git_cache' = opened
       /\ last' = Result("guard", IF answer THEN "true" ELSE "false", <<>>, None, None)
       /\ UNCHANGED <<commits, head, branches, tags, cold, worktree, noise, merging, mtime, now>>
       /\ UNCHANGED lockVars
       /\ UNCHANGED diskVars

DirChanged == \E fail \in GuardFailures : dir_changed(fail)

\* The guard, the snapshot engine, the user and the clock.
NextGuard ==
    \/ DirChanged
    \/ Capture
    \/ Edit
    \/ UserCommit
    \/ Tick

SpecGuard == Init /\ [][NextGuard]_vars

\* The same with a repository that opens and a HEAD that resolves in every
\* call of the guard.
NextWatermark ==
    \/ dir_changed("none")
    \/ Capture
    \/ Edit
    \/ UserCommit
    \/ Tick

SpecWatermark == Init /\ [][NextWatermark]_vars

\* ------------------------------------------------- database.rs, poller.rs

\* The runtime lock file: missing, empty, the JSON of a lock, or bytes that
\* do not parse.  A lock with pid None is {"pid":null}.
Missing == [kind |-> "missing", pid |-> None, len |-> 0]

\* The file opened without truncate: its bytes stay.
Untruncated == lock_file

\* OpenOptions::truncate(true)
Truncated == [kind |-> "empty", pid |-> None, len |-> 0]

RECURSIVE Digits(_)
Digits(n) == IF n < 10 THEN 1 ELSE 1 + Digits(n \div 10)

\* The number of bytes serde_json writes for a lock: {"pid":null} or
\* {"pid":<digits>}.
to_json_len(pid) == IF pid = None THEN 12 ELSE 8 + Digits(pid)

\* serde_json::to_writer through a handle opened at offset 0: the bytes
\* replace the head of the file; what another writer has put beyond them
\* stays and the file no longer parses.
to_writer(file, pid) ==
    IF file.len <= to_json_len(pid)
    THEN [kind |-> "json", pid |-> pid, len |-> to_json_len(pid)]
    ELSE [kind |-> "garbage", pid |-> None, len |-> file.len]

\* RuntimeLock::load: the pid of the lock, none when the file is missing or
\* does not parse.
load(file) == IF file.kind = "json" THEN file.pid ELSE None

\* process::id
id(d) == d

\* The pid of a process that is no daemon of this run.
OTHER_PID == 12345

\* The bytes {"pid":34725, which do not parse.
INVALID_JSON == [kind |-> "garbage", pid |-> None, len |-> 12]

\* What the lock file holds before a daemon starts: nothing, a lock with no
\* pid, the lock of another process, or bytes that do not parse.
PriorLocks ==
    {Missing, to_writer(Missing, None), to_writer(Missing, OTHER_PID), INVALID_JSON}

\* do_task's test with the comparison against the pid of another daemon only.
locked_out_by_other(pid, d) == pid # None /\ pid # id(d)

\* do_task's test with the comparison turned around.
locked_out_self(pid, d) == pid = id(d)

\* do_task: config.pid != Some(process::id())
locked_out(pid, d) == pid # id(d)

Running(d) == pc[d] \in {"sleep", "tick"}

\* Every running daemon other than the writer has had its lock overwritten.
Overwritten(writer) == [d \in Daemons |-> lost[d] \/ (d # writer /\ Running(d))]

\* start, first half: save opens the lock file with create and truncate.
start_truncate(d) ==
    /\ pc[d] = "off"
    /\ pc' = [pc EXCEPT ![d] = "start"]
    /\ lock_file' = Truncated
    /\ lost' = Overwritten(d)
    /\ UNCHANGED <<commits, head, branches, tags, cold, worktree, noise, merging, mtime, now, last>>
    /\ UNCHANGED <<git_cache, exit_code, kill_pc, left_alone>>
    /\ UNCHANGED diskVars

\* start, second half: save writes the lock with this process's pid; the
\* loop then sleeps.
start_write(d) ==
    /\ pc[d] = "start"
    /\ pc' = [pc EXCEPT ![d] = "sleep"]
    /\ lock_file' = to_writer(lock_file, id(d))
    /\ lost' = Overwritten(d)
    /\ UNCHANGED <<commits, head, branches, tags, cold, worktree, noise, merging, mtime, now, last>>
    /\ UNCHANGED <<git_cache, exit_code, kill_pc, left_alone>>
    /\ UNCHANGED diskVars

\* do_task, up to the loop over the repositories: the daemon wakes, loads
\* the lock and exits with code 1 when it names someone else.
do_task(d) ==
    /\ pc[d] = "sleep"
    /\ IF locked_out(load(lock_file), d)
       THEN /\ pc' = [pc EXCEPT ![d] = "exited"]
            /\ exit_code' = [exit_code EXCEPT ![d] = 1]
       ELSE /\ pc' = [pc EXCEPT ![d] = "tick"]
            /\ UNCHANGED exit_code
    /\ UNCHANGED <<commits, head, branches, tags, cold, worktree, noise, merging, mtime, now, last>>
    /\ UNCHANGED <<git_cache, lock_file, kill_pc, lost, left_alone>>
    /\ UNCHANGED diskVars

\* The exit code of a process whose main thread panicked.
PANIC_EXIT_CODE == 101

\* do_task, the loop over the repositories: process_directory finds the
\* repository and calls capture; whatever capture returns is logged and the
\* daemon sleeps again; a panic inside capture unwinds through do_task and
\* start and ends the process.
process_directory(d, fails, limit) ==
    /\ pc[d] = "tick"
    /\ \E fail \in fails : capture(fail, limit)
    /\ Stamp
    /\ IF last'.res = "panic"
       THEN /\ pc' = [pc EXCEPT ![d] = "exited"]
            /\ exit_code' = [exit_code EXCEPT ![d] = PANIC_EXIT_CODE]
       ELSE /\ pc' = [pc EXCEPT ![d] = "sleep"]
            /\ UNCHANGED exit_code
    /\ UNCHANGED <<git_cache, lock_file, kill_pc, lost, left_alone>>
    /\ UNCHANGED diskVars

\* kill, first half: save opens the lock file with create and truncate.
kill_truncate ==
    /\ kill_pc = "idle"
    /\ kill_pc' = "truncated"
    /\ lock_file' = Truncated
    /\ lost' = Overwritten(None)
    /\ UNCHANGED <<commits, head, branches, tags, cold, worktree, noise, merging, mtime, now, last>>
    /\ UNCHANGED <<git_cache, pc, exit_code, left_alone>>
    /\ UNCHANGED diskVars

\* kill, second half: save writes a lock with no pid.
kill_write ==
    /\ kill_pc = "truncated"
    /\ kill_pc' = "idle"
    /\ lock_file' = to_writer(lock_file, None)
    /\ lost' = Overwritten(None)
    /\ UNCHANGED <<commits, head, branches, tags, cold, worktree, noise, merging, mtime, now, last>>
    /\ UNCHANGED <<git_cache, pc, exit_code, left_alone>>
    /\ UNCHANGED diskVars

\* The user edits while the object database has room for the snapshot.
EditIn(limit) == Len(commits) < limit /\ ~left_alone /\ Edit

\* The user edits, creates ignored files and commits.
UserIn(limit) == Len(commits) < limit /\ ~left_alone /\ (Edit \/ Ignore \/ UserCommitIn(limit))

\* The user makes an edit and walks away.
LastEdit == Len(commits) < MaxCommits /\ ~left_alone /\ EditThen(TRUE)

\* What one daemon does.
Poller(d, fails) ==
    \/ start_truncate(d)
    \/ start_write(d)
    \/ do_task(d)
    \/ process_directory(d, fails, MaxCommits)

\* One daemon that keeps the lock, a user who edits and then leaves, and
\* storage that does not fail.
TheDaemon == Poller(1, {"none"})

NextPoll ==
    \/ TheDaemon
    \/ UserIn(MaxCommits)
    \/ LastEdit

\* The loop of start never ends: a daemon that can take a step takes it.
SpecPoll == Init /\ [][NextPoll]_vars /\ WF_vars(TheDaemon)

\* One daemon whose captures fail in every way, a forced commit date that
\* does not parse among them, and a user.
NextTick ==
    \/ Poller(1, Failures \cup Panics)
    \/ UserIn(MaxCommits)

SpecTick == Init /\ [][NextTick]_vars

\* Several daemons started at arbitrary times, the kill command, and a user.
Daemon == \E d \in Daemons : Poller(d, Failures)

NextLock ==
    \/ Daemon
    \/ kill_truncate
    \/ kill_write
    \/ EditIn(MaxCommits)

SpecLock == Init /\ [][NextLock]_vars /\ \A d \in Daemons : WF_vars(Poller(d, Failures))

\* RuntimeLock::load, as start and the commands call it.
RuntimeLock_load ==
    /\ last' = [op |-> "RuntimeLock::load", res |-> "ok", value |-> load(lock_file)]
    /\ UNCHANGED <<commits, head, branches, tags, cold, worktree, noise, merging, mtime, now>>
    /\ UNCHANGED aux

\* Config::load, as do_task and the commands call it.
Config_load_default ==
    /\ \E loaded \in {Config_load(config_file)} :
           last' = [op |-> "Config::load", res |-> loaded.res, value |-> loaded.value]
    /\ UNCHANGED <<commits, head, branches, tags, cold, worktree, noise, merging, mtime, now>>
    /\ UNCHANGED aux

\* One daemon started over whatever the lock file and the configuration
\* file hold.
InitStart ==
    /\ InitRepo
    /\ last = NoOperation
    /\ git_cache = FALSE
    /\ lock_file \in PriorLocks
    /\ pc = [d \in Daemons |-> "off"]
    /\ exit_code = [d \in Daemons |-> -1]
    /\ kill_pc = "idle"
    /\ lost = [d \in Daemons |-> FALSE]
    /\ left_alone = FALSE
    /\ config_file \in ConfigFiles
    /\ git_config = TestGitConfig
    /\ cycle_count = 0
    /\ fs = OneRepo
    /\ watch = WatchOneRepo
    /\ config_iter = 1
    /\ sub_iter = <<>>
    /\ cache = EmptyCache
    /\ found = {}
    /\ call = NotCalled(1)

NextStart ==
    \/ RuntimeLock_load
    \/ Config_load_default
    \/ Poller(1, Failures)
    \/ EditIn(MaxCommits)

SpecStart == InitStart /\ [][NextStart]_vars

\* get_git_author with the repository's user.name before the override.
get_git_author_git_first(dura_cfg, git_ok, git_cfg) ==
    IF ~dura_cfg.commit_exclude_git_config /\ git_ok /\ git_cfg.user_name # <<>>
    THEN git_cfg.user_name[1]
    ELSE IF dura_cfg.commit_author # <<>> THEN dura_cfg.commit_author[1]
    ELSE "dura"

\* get_git_author; git_ok: repo.config() returns the configuration.
get_git_author(dura_cfg, git_ok, git_cfg) ==
    IF dura_cfg.commit_author # <<>> THEN dura_cfg.commit_author[1]
    ELSE IF ~dura_cfg.commit_exclude_git_config /\ git_ok /\ git_cfg.user_name # <<>>
    THEN git_cfg.user_name[1]
    ELSE "dura"

\* get_git_email
get_git_email(dura_cfg, git_ok, git_cfg) ==
    IF dura_cfg.commit_email # <<>> THEN dura_cfg.commit_email[1]
    ELSE IF ~dura_cfg.commit_exclude_git_config /\ git_ok /\ git_cfg.user_email # <<>>
    THEN git_cfg.user_email[1]
    ELSE "dura@github.io"

\* GIT_COMMITTER_DATE: not set, a date in RFC 3339 or RFC 2822, or a string
\* that is neither.
CommitterDates == {"unset", "valid", "malformed"}

\* get_committer: the signature of a snapshot commit, author and committer
\* alike; the unwrap of the parsed date panics on a malformed one.
get_committer(date, git_ok) ==
    /\ \E dura_cfg \in {Config_load(config_file).value} :
          last' = [op |-> "get_committer",
                   res |-> IF date = "malformed" THEN "panic" ELSE "ok",
                   git_ok |-> git_ok,
                   name |-> get_git_author(dura_cfg, git_ok, git_config),
                   email |-> get_git_email(dura_cfg, git_ok, git_config)]
    /\ UNCHANGED <<commits, head, branches, tags, cold, worktree, noise, merging, mtime, now>>
    /\ UNCHANGED aux

GetCommitter == \E date \in CommitterDates, git_ok \in BOOLEAN : get_committer(date, git_ok)

\* GitRepo::set_config: git config user.name / user.email
set_config ==
    /\ git_config' \in GitConfigs \ {git_config}
    /\ last' = Other("user")
    /\ UNCHANGED <<commits, head, branches, tags, cold, worktree, noise, merging, mtime, now>>
    /\ UNCHANGED <<git_cache, lock_file, pc, exit_code, kill_pc, lost, left_alone>>
    /\ UNCHANGED <<config_file, fs, cycle_count, watch, config_iter, sub_iter, cache, found, call>>

\* Signatures made under every configuration file and git configuration.
InitSignature ==
    /\ InitRepo
    /\ last = NoOperation
    /\ git_cache = FALSE
    /\ lock_file = Missing
    /\ pc = [d \in Daemons |-> "off"]
    /\ exit_code = [d \in Daemons |-> -1]
    /\ kill_pc = "idle"
    /\ lost = [d \in Daemons |-> FALSE]
    /\ left_alone = FALSE
    /\ config_file \in ConfigFiles
    /\ git_config \in GitConfigs
    /\ cycle_count = 0
    /\ fs = OneRepo
    /\ watch = WatchOneRepo
    /\ config_iter = 1
    /\ sub_iter = <<>>
    /\ cache = EmptyCache
    /\ found = {}
    /\ call = NotCalled(1)

NextSignature == GetCommitter \/ set_config

SpecSignature == InitSignature /\ [][NextSignature]_vars

\* fs::write of the configuration: the file holds the document, or the
\* write fails and the file stays as it is.
SaveConfig(config, fail) ==
    config_file' = IF fail THEN config_file
                   ELSE [kind |-> "toml", doc |-> toml_to_string(config)]

\* What a command of the user on the watch set has done.
Command(op, res, path, cfg) == [op |-> op, res |-> res, path |-> path, cfg |-> cfg]

\* watch_dir: `dura watch DIR -i .. -e .. -d ..`; set_watch panics on a
\* path that cannot be canonicalized, before anything is saved.
watch_dir(path, watch_config, fail) ==
    /\ \E abs_path \in {canonicalize(fs, path)} :
          IF ~abs_path.ok
          THEN /\ last' = Command("watch", "panic", path, watch_config)
               /\ UNCHANGED config_file
          ELSE /\ SaveConfig(set_watch(Config_load(config_file).value, abs_path.value, watch_config), fail)
               /\ last' = Command("watch", IF fail THEN "unsaved" ELSE "saved",
                                   abs_path.value, watch_config)
    /\ UNCHANGED <<commits, head, branches, tags, cold, worktree, noise, merging, mtime, now>>
    /\ UNCHANGED <<git_cache, lock_file, pc, exit_code, kill_pc, lost, left_alone>>
    /\ UNCHANGED <<git_config, fs, cycle_count, watch, config_iter, sub_iter, cache, found, call>>

\* unwatch_dir: `dura unwatch DIR`
unwatch_dir(path, fail) ==
    /\ \E abs_path \in {canonicalize(fs, path)} :
          IF ~abs_path.ok
          THEN /\ last' = Command("unwatch", "panic", path, WatchConfig_new)
               /\ UNCHANGED config_file
          ELSE /\ SaveConfig(set_unwatch(Config_load(config_file).value, abs_path.value), fail)
               /\ last' = Command("unwatch", IF fail THEN "unsaved" ELSE "saved",
                                   abs_path.value, WatchConfig_new)
    /\ UNCHANGED <<commits, head, branches, tags, cold, worktree, noise, merging, mtime, now>>
    /\ UNCHANGED <<git_cache, lock_file, pc, exit_code, kill_pc, lost, left_alone>>
    /\ UNCHANGED <<git_config, fs, cycle_count, watch, config_iter, sub_iter, cache, found, call>>

\* The directories the user names, r/a also as r/x/../a, and the
\* specifications given on the command line.
Spellings == {<<"r">>, <<"r", "a">>, <<"r", "x", "..", "a">>, <<"s">>}
WatchSpecs ==
    {WatchConfig_new, [include |-> <<>>, exclude |-> <<<<"a">>>>, max_depth |-> 2]}

\* The directory r with a and x in it, and s that may be missing.
WatchTrees ==
    {[p \in Paths |-> IF p \in {<<"r">>, <<"r", "a">>, <<"r", "x">>} THEN "dir"
                      ELSE IF p = <<"s">> THEN kind ELSE "none"] : kind \in {"none", "repo"}}

WatchDir == \E path \in Spellings, cfg \in WatchSpecs, fail \in BOOLEAN : watch_dir(path, cfg, fail)
UnwatchDir == \E path \in Spellings, fail \in BOOLEAN : unwatch_dir(path, fail)

InitWatch ==
    /\ InitRepo
    /\ last = NoOperation
    /\ git_cache = FALSE
    /\ lock_file = Missing
    /\ pc = [d \in Daemons |-> "off"]
    /\ exit_code = [d \in Daemons |-> -1]
    /\ kill_pc = "idle"
    /\ lost = [d \in Daemons |-> FALSE]
    /\ left_alone = FALSE
    /\ config_file \in ConfigFiles
    /\ git_config = TestGitConfig
    /\ cycle_count = 0
    /\ fs \in WatchTrees
    /\ watch = WatchOneRepo
    /\ config_iter = 1
    /\ sub_iter = <<>>
    /\ cache = EmptyCache
    /\ found = {}
    /\ call = NotCalled(1)

NextWatch == WatchDir \/ UnwatchDir

SpecWatch == InitWatch /\ [][NextWatch]_vars

\* --------------------------------------------- main.rs, two commands at once
\* Two `dura watch` / `dura unwatch` commands, each a process of its own,
\* on different directories. Each reads the file once, edits what it read
\* and writes it with fs::write, which opens the file with truncation and
\* then writes the bytes; the writes succeed.
Commands == 1..2
CommandDirs == {<<"r">>, <<"r", "a">>}
CommandOps == {"watch", "unwatch"}

\* A command that has not read the file yet.
Started(op, path) == [pc |-> "start", op |-> op, path |-> path, config |-> Config_empty]

\* The commands, and whether one has read the file while the other was
\* between its read and the end of its write.
AtOnce(of, overlap) == [op |-> "commands", of |-> of, overlap |-> overlap]

\* An empty file is a TOML document without a key.
EmptyConfigFile == [kind |-> "toml", doc |-> NoDocument]

\* watch_dir / unwatch_dir up to config.save(): Config::load, then
\* set_watch or set_unwatch on what was loaded, which panics on a path
\* that cannot be canonicalized.
command_load(cmd, file, t) ==
    LET config == Config_load(file).value
        abs_path == canonicalize(t, cmd.path)
    IN IF ~abs_path.ok THEN [cmd EXCEPT !.pc = "panic"]
       ELSE [cmd EXCEPT !.pc = "loaded",
                        !.config = IF cmd.op = "watch"
                                   THEN set_watch(config, abs_path.value, WatchConfig_new)
                                   ELSE set_unwatch(config, abs_path.value)]

\* The command reads the configuration file and edits what it read.
CommandLoad(c) ==
    /\ last.of[c].pc = "start"
    /\ last' = AtOnce([last.of EXCEPT ![c] = command_load(last.of[c], config_file, fs)],
                       last.overlap \/ \E o \in Commands \ {c} : last.of[o].pc \in {"loaded", "created"})
    /\ UNCHANGED <<commits, head, branches, tags, cold, worktree, noise, merging, mtime, now>>
    /\ UNCHANGED aux

\* Config::save_to_path, fs::write: File::create leaves the file empty.
CommandCreate(c) ==
    /\ last.of[c].pc = "loaded"
    /\ config_file' = EmptyConfigFile
    /\ last' = AtOnce([last.of EXCEPT ![c].pc = "created"], last.overlap)
    /\ UNCHANGED <<commits, head, branches, tags, cold, worktree, noise, merging, mtime, now>>
    /\ UNCHANGED <<git_cache, lock_file, pc, exit_code, kill_pc, lost, left_alone>>
    /\ UNCHANGED <<git_config, fs, cycle_count, watch, config_iter, sub_iter, cache, found, call>>

\* Config::save_to_path, fs::write: write_all puts the document the command
\* has made into the file.
CommandWrite(c) ==
    /\ last.of[c].pc = "created"
    /\ config_file' = [kind |-> "toml", doc |-> toml_to_string(last.of[c].config)]
    /\ last' = AtOnce([last.of EXCEPT ![c].pc = "done"], last.overlap)
    /\ UNCHANGED <<commits, head, branches, tags, cold, worktree, noise, merging, mtime, now>>
    /\ UNCHANGED <<git_cache, lock_file, pc, exit_code, kill_pc, lost, left_alone>>
    /\ UNCHANGED <<git_config, fs, cycle_count, watch, config_iter, sub_iter, cache, found, call>>

InitCommands ==
    /\ InitRepo
    /\ \E of \in [Commands -> {Started(op, path) : op \in CommandOps, path \in CommandDirs}] :
          /\ of[1].path # of[2].path
          /\ last = AtOnce(of, FALSE)
    /\ git_cache = FALSE
    /\ lock_file = Missing
    /\ pc = [d \in Daemons |-> "off"]
    /\ exit_code = [d \in Daemons |-> -1]
    /\ kill_pc = "idle"
    /\ lost = [d \in Daemons |-> FALSE]
    /\ left_alone = FALSE
    /\ config_file \in ConfigFiles
    /\ git_config = TestGitConfig
    /\ cycle_count = 0
    /\ fs \in WatchTrees
    /\ watch = WatchOneRepo
    /\ config_iter = 1
    /\ sub_iter = <<>>
    /\ cache = EmptyCache
    /\ found = {}
    /\ call = NotCalled(1)

NextCommands == \E c \in Commands : CommandLoad(c) \/ CommandCreate(c) \/ CommandWrite(c)

SpecCommands == InitCommands /\ [][NextCommands]_vars

\* ------------------------------------------------------------- octopus.rs

MAX_TREE_HEIGHT == 16
DEFAULT_NUM_PARENTS == 8

\* An Option<u8> or Option<u16> that is None.
Absent == -1

Min(a, b) == IF a < b THEN a ELSE b
Range(s) == {s[i] : i \in 1..Len(s)}

\* get_dura_snapshot_branches: the local branches dura/<x>.
get_dura_snapshot_branches(br) == {b \in BranchNames \ {MASTER} : br[b] # None}

\* sort: newest tip first.  Branches whose tips have the same time keep the
\* order the branch iterator gave them, which can be any.
RECURSIVE sort(_, _, _)
sort(cs, br, bs) ==
    IF bs = {} THEN {<<>>}
    ELSE UNION {{<<b>> \o rest : rest \in sort(cs, br, bs \ {b})} :
                b \in {x \in bs : \A y \in bs : cs[br[y]].time <= cs[br[x]].time}}

\* The commits the sorted branches peel to.
parent_commits(br, hash_branches) == [i \in 1..Len(hash_branches) |-> br[hash_branches[i]]]

\* get_args: nothing to do when num_uncompressed is none or not below the
\* number of branches, else the number of parents and the branches to fold.
get_args(num_parents, num_uncompressed, parents) ==
    IF num_uncompressed # Absent /\ num_uncompressed < Len(parents)
    THEN [some |-> TRUE,
          num_parents |-> IF num_parents = Absent THEN DEFAULT_NUM_PARENTS ELSE num_parents,
          commits |-> SubSeq(parents, num_uncompressed + 1, Len(parents))]
    ELSE [some |-> FALSE, num_parents |-> 0, commits |-> <<>>]

\* make_compacted_commit: author, committer and tree of the first parent.
make_compacted_commit(cs, parents) ==
    [parents |-> parents, tree |-> cs[parents[1]].tree, time |-> cs[parents[1]].time,
     message |-> COMPACT_MESSAGE]

\* The commits of the groups, written one after the other.
RECURSIVE WriteAll(_, _)
WriteAll(cs, groups) ==
    IF groups = <<>> THEN [commits |-> cs, oids |-> <<>>]
    ELSE LET new == make_compacted_commit(cs, Head(groups))
             rest == WriteAll(Written(cs, new), Tail(groups))
         IN [commits |-> rest.commits, oids |-> <<OidOf(cs, new)>> \o rest.oids]

\* slice.chunks(n)
RECURSIVE chunks(_, _)
chunks(s, n) ==
    IF s = <<>> THEN <<>>
    ELSE IF Len(s) <= n THEN <<s>>
    ELSE <<SubSeq(s, 1, n)>> \o chunks(SubSeq(s, n + 1, Len(s)), n)

\* build_tree: first the excess bucket is redone with the oldest commits and
\* its own parents, when it has room; then all the commits are grouped, the
\* group that is not full first; the new excess is returned last.
build_tree(cs, parents, num_parents, excess) ==
    LET n == Len(parents)
        num_excess == IF excess = None THEN 0
                      ELSE Min(num_parents - Len(cs[excess].parents), n)
        fill == IF num_excess > 0
                THEN <<SubSeq(parents, n - num_excess + 1, n) \o cs[excess].parents>>
                ELSE <<>>
        unfinished_size == n % num_parents
        unfinished == IF unfinished_size > 0 THEN <<SubSeq(parents, 1, unfinished_size)>> ELSE <<>>
        full == chunks(SubSeq(parents, unfinished_size + 1, n), num_parents)
        written == WriteAll(cs, fill \o unfinished \o full)
    IN [commits |-> written.commits,
        ret |-> SubSeq(written.oids, Len(fill) + 1, Len(written.oids))
                    \o SubSeq(written.oids, 1, Len(fill))]

\* get_max_flat_node_index, 0 when there is no tag dura/cold/<n>.
get_max_flat_node_index(tg) ==
    IF \E i \in TagIndices : tg[i] # None
    THEN CHOOSE i \in TagIndices : tg[i] # None /\ \A j \in TagIndices : tg[j] # None => j <= i
    ELSE 0

\* Where tag_flat_nodes starts numbering: it rolls back one when an excess
\* bucket was found.
first_cold_index(tg, has_excess) ==
    IF get_max_flat_node_index(tg) > 0 /\ has_excess
    THEN get_max_flat_node_index(tg) - 1
    ELSE get_max_flat_node_index(tg)

\* tag_flat_nodes that numbers the results from the first one on.
tag_flat_nodes_forward(tg, res, has_excess, done) ==
    LET start == first_cold_index(tg, has_excess)
    IN [i \in TagIndices |-> IF i > start /\ i <= start + done THEN res[i - start] ELSE tg[i]]

\* tag_flat_nodes after `done` tags: the results get the next numbers, the last
\* result first, over any tag that has the number.
tag_flat_nodes(tg, res, has_excess, done) ==
    LET start == first_cold_index(tg, has_excess)
    IN [i \in TagIndices |->
            IF i > start /\ i <= start + done THEN res[Len(res) - (i - start) + 1] ELSE tg[i]]

\* get_branches_for_commits that finds every snapshot branch.
get_branches_for_all(br, oids) == {b \in BranchNames \ {MASTER} : br[b] # None}

\* get_branches_for_commits: the branches refs/heads/dura/* that point at one
\* of the commits.
get_branches_for_commits(br, oids) == {b \in BranchNames \ {MASTER} : br[b] \in oids}

\* delete_branches, of the branches in `gone`.
delete_branches(br, gone) == [b \in BranchNames |-> IF b \in gone THEN None ELSE br[b]]

\* The Tree arm with a single pass of build_tree and no loop.
tree_levels_once(cs, last_pass, num_parents, num_levels_processed, limit) ==
    LET built == build_tree(cs, last_pass, num_parents, None)
    IN [commits |-> built.commits, oids |-> built.ret, panic |-> FALSE]

\* The Tree arm's loop: one level after the other until one commit is left;
\* it panics at MAX_TREE_HEIGHT.  The loop is cut short when the object
\* database has grown beyond `limit`.
RECURSIVE tree_levels(_, _, _, _, _)
tree_levels(cs, last_pass, num_parents, num_levels_processed, limit) ==
    IF num_levels_processed >= MAX_TREE_HEIGHT
    THEN [commits |-> cs, oids |-> <<>>, panic |-> TRUE]
    ELSE LET built == build_tree(cs, last_pass, num_parents, None)
         IN IF Len(built.ret) > 1 /\ Len(built.commits) <= limit
            THEN tree_levels(built.commits, built.ret, num_parents,
                             num_levels_processed + 1, limit)
            ELSE [commits |-> built.commits, oids |-> built.ret, panic |-> FALSE]

\* Where consolidate can fail: opening the repository and listing the
\* branches, the signature of the tagger after the merge commits are written,
\* after the first tag, while the branches are deleted.
ConsolidateFailures == {"none", "open", "tag", "tagged", "delete"}

\* What a call of consolidate was given and what it returns: the strategy,
\* num_uncompressed, the number of parents and the commits that get_args
\* hands on, and the list of merge commits (empty when the call fails).
Returned(strategy, num_parents, num_uncompressed, args, res, ret) ==
    [op |-> "consolidate", res |-> res, strategy |-> strategy, num_parents |-> args.num_parents,
     num_uncompressed |-> num_uncompressed, eligible |-> args.commits, ret |-> ret]

\* The tags and snapshot branches the call leaves when none of its calls
\* fails (not known when the repository does not open), and num_parents as
\* the caller gave it.
Leaves(known, tg, br) == [known |-> known, tags |-> tg, branches |-> br]
Expecting(out, given, completed) ==
    [f \in DOMAIN out \cup {"given", "completed"} |->
        IF f = "completed" THEN completed ELSE IF f = "given" THEN given ELSE out[f]]

\* The part of a call's record that a run keeps.
Outcome == {"op", "res"}
Call == {"op", "res", "strategy", "num_parents", "num_uncompressed", "eligible", "ret"}
Restart == {"op", "res", "strategy", "given", "num_uncompressed", "ret", "completed"}
Only(out, fields) == [f \in fields |-> out[f]]

\* consolidate leaves the repository with these objects and refs.
Done(out, cs, tg, cd, br, limit) ==
    /\ Len(cs) <= limit
    /\ commits' = cs
    /\ tags' = tg
    /\ cold' = cd
    /\ branches' = br
    /\ last' = out
    /\ UNCHANGED <<head, worktree, noise, merging>>

\* consolidate, the arm ConsolidateStrategy::Flat.
consolidate_flat(num_parents, num_uncompressed, orders, fails, limit, fields) ==
    \E args \in {get_args(num_parents, num_uncompressed, parent_commits(branches, hash_branches)) :
                    hash_branches \in orders} :
    LET to_remove == Range(args.commits)
        max_index == get_max_flat_node_index(tags)
        has_excess == max_index > 0
        excess == IF has_excess THEN tags[max_index] ELSE None
        gone == get_branches_for_commits(branches, to_remove)
        out(res, ret, completed) ==
            Only(Expecting(Returned("flat", num_parents, num_uncompressed, args, res, ret),
                           num_parents, completed), fields)
        as_is == Leaves(TRUE, tags, branches)
    IN \/ "open" \in fails
            /\ Done(out("err", <<>>, Leaves(FALSE, tags, branches)), commits, tags, cold,
                    branches, limit)
       \/ ~args.some /\ Done(out("ok", <<>>, as_is), commits, tags, cold, branches, limit)
       \/ args.some /\ args.num_parents = 0
            /\ Done(out("panic", <<>>, as_is), commits, tags, cold, branches, limit)
       \/ /\ args.some /\ args.num_parents # 0
          /\ \E built \in {build_tree(commits, args.commits, args.num_parents, excess)} :
             \E fail \in fails \ {"open"} :
               LET tagged == tag_flat_nodes(tags, built.ret, has_excess, Len(built.ret))
                   completed == Leaves(TRUE, tagged, delete_branches(branches, gone))
               IN
               IF fail = "tag"
               THEN Done(out("err", <<>>, completed), built.commits, tags, cold, branches, limit)
               ELSE /\ first_cold_index(tags, has_excess) + Len(built.ret) <= MaxTags
                    /\ IF fail = "tagged"
                       THEN Done(out("err", <<>>, completed), built.commits,
                                 tag_flat_nodes(tags, built.ret, has_excess, 1),
                                 cold, branches, limit)
                       ELSE IF fail = "delete"
                       THEN \E kept \in (SUBSET gone) \ {{}} :
                                Done(out("err", <<>>, completed), built.commits, tagged,
                                     cold, delete_branches(branches, gone \ kept), limit)
                       ELSE Done(out("ok", built.ret, completed), built.commits, tagged,
                                 cold, delete_branches(branches, gone), limit)

\* consolidate, the arm ConsolidateStrategy::Tree.
consolidate_tree(num_parents, num_uncompressed, orders, fails, limit, fields) ==
    \E args \in {get_args(num_parents, num_uncompressed, parent_commits(branches, hash_branches)) :
                    hash_branches \in orders} :
    LET out(res, ret) ==
            Only(Expecting(Returned("tree", num_parents, num_uncompressed, args, res, ret),
                           num_parents, Leaves(FALSE, tags, branches)), fields)
    IN \/ "open" \in fails /\ Done(out("err", <<>>), commits, tags, cold, branches, limit)
       \/ ~args.some /\ Done(out("ok", <<>>), commits, tags, cold, branches, limit)
       \/ args.some /\ args.num_parents = 0
            /\ Done(out("panic", <<>>), commits, tags, cold, branches, limit)
       \/ /\ args.some /\ args.num_parents # 0
          /\ \E built \in {tree_levels(commits, args.commits, args.num_parents, 1, limit)} :
             \E fail \in fails \ {"open", "tagged", "delete"} :
               IF built.panic
               THEN Done(out("panic", <<>>), built.commits, tags, cold, branches, limit)
               ELSE IF fail = "tag"
               THEN Done(out("err", <<>>), built.commits, tags, cold, branches, limit)
               ELSE Done(out("ok", built.oids), built.commits, tags, built.oids[1],
                         branches, limit)

\* The values a caller passes for num_parents and num_uncompressed.
NumParents == {Absent} \cup 0..MaxParents
NumUncompressed == {Absent} \cup 0..MaxUncompressed

consolidate(strategy, num_parents, num_uncompressed, orders, fails, limit, fields) ==
    IF strategy = "flat"
    THEN consolidate_flat(num_parents, num_uncompressed, orders, fails, limit, fields)
    ELSE consolidate_tree(num_parents, num_uncompressed, orders, fails, limit, fields)

\* One call of consolidate with one of the strategies.
ConsolidateWith(strategies, fails, limit, fields) ==
    /\ \E orders \in {sort(commits, branches, get_dura_snapshot_branches(branches))} :
         \E strategy \in strategies, num_parents \in NumParents,
            num_uncompressed \in NumUncompressed :
            consolidate(strategy, num_parents, num_uncompressed, orders, fails, limit, fields)
    /\ Stamp
    /\ UNCHANGED aux

\* A call of consolidate with the strategy Flat, any one of its calls failing
\* or none.
Consolidate == ConsolidateWith({"flat"}, ConsolidateFailures, MaxCommits, Outcome)

\* Calls of capture and consolidate in any order while the user edits and
\* commits.
NextConsolidate ==
    \/ Consolidate
    \/ Capture
    \/ Edit
    \/ UserCommit

SpecConsolidate == Init /\ [][NextConsolidate]_vars

\* The commits the user has made.
UserCommits == {i \in 1..Len(commits) : commits[i].message = USER_MESSAGE}

\* One round of create_n_branches: the user commits all, rewrites the file
\* and capture makes the first snapshot of the new HEAD, on a new branch.  The
\* round takes `dt` half seconds.
create_branch(dt, limit) ==
    LET t == now + dt
        made == [parents |-> <<head>>, tree |-> worktree, time |-> Seconds(t),
                 message |-> USER_MESSAGE]
        h == Len(commits) + 1
        changed == CHOOSE c \in Contents : c # worktree
        snap == [parents |-> <<h>>, tree |-> changed, time |-> Seconds(t),
                 message |-> SNAPSHOT_MESSAGE]
        moved == [branches EXCEPT ![MASTER] = h]
    IN /\ Len(commits) + 2 <= limit
       /\ Cardinality(UserCommits) <= MaxBranches
       /\ commits' = commits \o <<made, snap>>
       /\ head' = h
       /\ worktree' = changed
       /\ branches' = after_commit(after_branch(after_clean(moved, h), h), h, h + 1)
       /\ last' = Result("capture", "some", branch_name(h), h + 1, h)
       /\ now' = t /\ mtime' = t
       /\ merging' = FALSE
       /\ UNCHANGED <<tags, cold, noise>>
       /\ UNCHANGED aux

\* A round within the same second as the last, or a second later.
CreateBranch == \E dt \in {0, 2} : create_branch(dt, MaxObjects)

\* The merge commits of the database.
Merges == {i \in 1..Len(commits) : commits[i].message = COMPACT_MESSAGE}

\* The size the database may grow to by merge commits.
Room == Len(commits) - Cardinality(Merges) + MaxMerges

\* A Flat consolidation that does not fail.
ConsolidateFlat == ConsolidateWith({"flat"}, {"none"}, Room, Call)

\* Rounds of create_n_branches and Flat consolidations in any order.
NextFlat ==
    \/ ConsolidateFlat
    \/ CreateBranch

SpecFlat == Init /\ [][NextFlat]_vars

\* A Flat consolidation that does not fail, or fails while the branches are
\* deleted, after the tags were made.
ConsolidateRestart == ConsolidateWith({"flat"}, {"none", "delete"}, Room, Restart)

\* Two rounds of create_n_branches at most, a second apart.
CreateTwoBranches == create_branch(2, MaxCommits + 2)

\* Rounds of create_n_branches and Flat consolidations that may fail and are
\* run again.
NextRestart ==
    \/ ConsolidateRestart
    \/ CreateTwoBranches

SpecRestart == Init /\ [][NextRestart]_vars

\* A Tree consolidation that does not fail.
ConsolidateTree == ConsolidateWith({"tree"}, {"none"}, Room, Call)

\* A round that ends a second after the last.
CreateBranchLater == create_branch(2, MaxObjects)

\* Rounds of create_n_branches and Tree consolidations in any order.
NextTree ==
    \/ ConsolidateTree
    \/ CreateBranchLater

SpecTree == Init /\ [][NextTree]_vars

\* consolidate with the strategy Flat in a repository where the user checks
\* out commits, snapshot commits too, and edits, and capture runs and fails
\* at any of its calls.
ConsolidateDetached == ConsolidateWith({"flat"}, {"none"}, MaxCommits, Call)

NextDetached == ConsolidateDetached \/ Capture \/ Edit \/ Checkout

SpecDetached == Init /\ [][NextDetached]_vars

\* ------------------------------------------------ octopus.rs, the Tree loop

\* b to the power e.
RECURSIVE Pow(_, _)
Pow(b, e) == IF e = 0 THEN 1 ELSE b * Pow(b, e - 1)

\* build_tree without an excess bucket gives back one merge commit for the
\* group that is not full and one for each full group.
build_tree_len(n, num_parents) ==
    LET unfinished_size == n % num_parents
    IN (IF unfinished_size > 0 THEN 1 ELSE 0) + (n - unfinished_size) \div num_parents

\* The eligible commits a Tree call is given: as many as a power of
\* num_parents up to the one after MAX_TREE_HEIGHT, one fewer or one more.
EligibleCounts(num_parents) ==
    {n \in {Pow(num_parents, k) + d : k \in 0..MAX_TREE_HEIGHT + 1, d \in {-1, 0, 1}} : n >= 1}

\* The Tree arm about to enter its loop over `eligible` commits.
TreeCall(num_parents, eligible) ==
    [op |-> "consolidate", strategy |-> "tree", res |-> "loop", num_parents |-> num_parents,
     eligible |-> eligible, last_pass |-> eligible, num_levels_processed |-> 0]

\* One turn of the Tree arm's loop: the level counter goes up and the call
\* panics at MAX_TREE_HEIGHT; else build_tree folds the last pass, and the
\* loop is left when one commit or none came back.
tree_pass(c) ==
    LET n == c.num_levels_processed + 1
        built == build_tree_len(c.last_pass, c.num_parents)
    IN IF n >= MAX_TREE_HEIGHT
       THEN [c EXCEPT !.num_levels_processed = n, !.res = "panic"]
       ELSE [c EXCEPT !.num_levels_processed = n, !.last_pass = built,
                      !.res = IF built > 1 THEN "loop" ELSE "ok"]

TreePass ==
    /\ last.res = "loop"
    /\ last' = tree_pass(last)
    /\ UNCHANGED <<commits, head, branches, tags, cold, worktree, noise, merging, mtime, now>>
    /\ UNCHANGED aux

InitHeight ==
    /\ InitRepo
    /\ InitAux
    /\ \E num_parents \in 1..MaxParents :
         \E eligible \in EligibleCounts(num_parents) : last = TreeCall(num_parents, eligible)

NextHeight == TreePass

SpecHeight == InitHeight /\ [][NextHeight]_vars

\* ------------------------------------------------------- git_repo_iter.rs

\* The directory trees: r is a directory or a repository; r/a, r/a/b, ... are
\* directories or repositories, each inside the one before; r/x and s are
\* repositories or missing, r/x may be a plain file.
KindsAt(p) == {"none", "repo"} \cup (IF p = <<"r", "x">> THEN {"file"} ELSE {})
           \cup (IF p \in {Chain(k) : k \in 0..MaxChain} THEN {"dir"} ELSE {})
Trees ==
    {t \in [Paths -> {"none", "file", "dir", "repo"}] :
        /\ t[<<"r">>] # "none"
        /\ \A p \in Paths :
              /\ t[p] \in KindsAt(p)
              /\ Len(p) > 1 /\ t[p] # "none" => t[parent(p)] \in {"dir", "repo"}}

\* The watch sets: r alone, r and its sibling s, or r and the directory r/a
\* inside it; r with any of the configurations, the second root with any
\* depth.
Depths == 0..MaxChain \cup {DEFAULT_MAX_DEPTH}
Patterns == {<<>>, <<<<"a">>>>, <<<<"a", "b", "c">>>>}
WatchConfigs ==
    [include : Patterns, exclude : Patterns, max_depth : Depths]
Watches ==
    {<<[path |-> <<"r">>, watch_config |-> c]>> : c \in WatchConfigs}
    \cup {<<[path |-> <<"r">>, watch_config |-> c],
            [path |-> other, watch_config |-> [WatchConfig_new EXCEPT !.max_depth = d]]>> :
             c \in WatchConfigs, other \in {<<"r", "a">>, <<"s">>}, d \in {MaxChain - 1}}

\* Path::is_dir; "locked" is a directory that may not be read.
is_dir(t, p) == p = TMP \/ t[p] \in {"dir", "repo", "locked"}

\* fs::read_dir: the entries of a directory; it fails on what is no
\* directory and on a directory that may not be read.
read_dir_ok(t, p) == p = TMP \/ t[p] \in {"dir", "repo"}
\* fs::read_dir that lists what is below the entries too.
read_dir_below(t, p) ==
    SelectSeq(Listing \o <<Raw>>,
              LAMBDA q : q \in DOMAIN t /\ starts_with(q, p) /\ q # p /\ t[q] # "none")

\* fs::read_dir: the entries of the directory, in the order of Listing.
read_dir(t, p) ==
    SelectSeq(Listing \o <<Raw>>, LAMBDA q : q \in DOMAIN t /\ parent(q) = p /\ t[q] # "none")

\* snapshots::is_repo
is_repo(t, p) == t[p] = "repo"

\* is_valid_directory without the re-inclusion.
is_valid_directory_excluding(t, base_path, child_path, value) ==
    /\ is_dir(t, child_path)
    /\ starts_with(child_path, base_path)
    /\ ~\E i \in 1..Len(value.exclude) :
           starts_with(child_path, join(base_path, value.exclude[i]))

\* is_valid_directory
is_valid_directory(t, base_path, child_path, value) ==
    IF ~is_dir(t, child_path) THEN FALSE
    ELSE IF ~starts_with(child_path, base_path) THEN FALSE
    ELSE LET excluded == \E i \in 1..Len(value.exclude) :
                             starts_with(child_path, join(base_path, value.exclude[i]))
         IN IF excluded /\ value.include # <<>>
            THEN \E i \in 1..Len(value.include) :
                     starts_with(join(base_path, value.include[i]), child_path)
            ELSE ~excluded

\* get_next's depth test that lets one more level in.
may_recurse_one_more(len, max_depth) == len <= max_depth

\* get_next without the depth test.
may_recurse_always(len, max_depth) == TRUE

\* get_next: self.sub_iter.len() < max_depth, the current frame popped.
may_recurse(len, max_depth) == len < max_depth

\* CachedFs::send_hit: the cached children, as paths.
send_hit(c, path) ==
    [cache |-> c,
     dir_iter |-> [kind |-> "Hit", dir |-> path, ttl |-> 0,
                   rest |-> [i \in 1..Len(c[path].children) |->
                                 join(path, <<c[path].children[i]>>)]]]

\* CachedFs::get_new_cache_item: the time the items of one miss run out,
\* fixed when the miss begins.
get_new_cache_item(time) == time + MaxLifetime

\* CachedFs::send_miss: a new item for the directory and a reader of it, or
\* an empty hit when the directory cannot be read.
send_miss(c, t, path, time) ==
    LET ttl == get_new_cache_item(time)
    IN IF read_dir_ok(t, path)
       THEN [cache |-> [c EXCEPT ![path] = NewCacheItem(ttl)],
             dir_iter |-> [kind |-> "Miss", dir |-> path, ttl |-> ttl,
                           rest |-> read_dir(t, path)]]
       ELSE [cache |-> c,
             dir_iter |-> [kind |-> "Hit", dir |-> path, ttl |-> 0, rest |-> <<>>]]

\* list_dir without the arm of the time that has run out.
list_dir_no_timeout(c, t, path, stale, time) ==
    IF c[path].present /\ c[path].listed /\ ~stale
    THEN send_hit(c, path)
    ELSE send_miss(c, t, path, time)

\* CachedFs::list_dir at the given time: a miss when the cache is disabled
\* or the bucket of the item is the current one (stale tells: the current
\* bucket is a random number), when the item has no children, and when its
\* time has run out; else a hit.
list_dir(c, t, path, stale, time) ==
    IF ~c[path].present THEN send_miss(c, t, path, time)
    ELSE IF stale THEN send_miss(c, t, path, time)
    ELSE IF ~c[path].listed THEN send_miss(c, t, path, time)
    ELSE IF c[path].ttl < time THEN send_miss(c, t, path, time)
    ELSE send_hit(c, path)

\* CachedDirIter::next on an iterator that has an entry left: a miss puts a
\* new item in for the entry and adds its name, when it is a String, to the
\* children of the directory.
next(c, dir_iter) ==
    LET entry_path == Head(dir_iter.rest)
        inserted == [c EXCEPT ![entry_path] = NewCacheItem(dir_iter.ttl)]
        dir == parent(entry_path)
        comp == into_string(entry_path[Len(entry_path)])
    IN [cache |-> IF dir_iter.kind = "Miss"
                  THEN IF inserted[dir].present
                       THEN [inserted EXCEPT
                               ![dir].listed = TRUE,
                               ![dir].children = @ \o comp]
                       ELSE inserted
                  ELSE c,
        dir_iter |-> [dir_iter EXCEPT !.rest = Tail(@)]]

\* GitRepoIter::get_next, one call.
get_next ==
    /\ IF sub_iter # <<>>
       THEN LET top == sub_iter[Len(sub_iter)]
                popped == SubSeq(sub_iter, 1, Len(sub_iter) - 1)
            IN IF top.dir_iter.rest = <<>>
               THEN /\ sub_iter' = popped
                    /\ call' = Recurse(call.pass)
                    /\ UNCHANGED <<cache, found, config_iter>>
               ELSE LET child_path == Head(top.dir_iter.rest)
                        read == next(cache, top.dir_iter)
                        unpopped == Append(popped, [top EXCEPT !.dir_iter = read.dir_iter])
                        valid == is_valid_directory(fs, top.base_path, child_path, top.watch_config)
                    IN /\ UNCHANGED config_iter
                       /\ IF valid /\ is_repo(fs, child_path)
                          THEN /\ call' = Yield(child_path, call.pass)
                               /\ found' = found \cup {child_path}
                               /\ sub_iter' = unpopped
                               /\ cache' = read.cache
                          ELSE IF valid /\ may_recurse(Len(popped), top.watch_config.max_depth)
                          THEN \E stale \in BOOLEAN :
                                 LET child_dir_iter == list_dir(read.cache, fs, child_path, stale, now)
                                 IN /\ call' = Recurse(call.pass)
                                    /\ sub_iter' = Append(unpopped,
                                           [top EXCEPT !.dir_iter = child_dir_iter.dir_iter])
                                    /\ cache' = child_dir_iter.cache
                                    /\ UNCHANGED found
                          ELSE /\ call' = Recurse(call.pass)
                               /\ sub_iter' = unpopped
                               /\ cache' = read.cache
                               /\ UNCHANGED found
       ELSE IF config_iter <= Len(watch)
       THEN \E stale \in BOOLEAN :
              LET path == watch[config_iter].path
                  dir_iter == list_dir(cache, fs, parent(path), stale, now)
              IN /\ config_iter' = config_iter + 1
                 /\ sub_iter' = <<[base_path |-> path,
                                   watch_config |-> watch[config_iter].watch_config,
                                   dir_iter |-> dir_iter.dir_iter]>>
                 /\ cache' = dir_iter.cache
                 /\ call' = Recurse(call.pass)
                 /\ UNCHANGED found
       ELSE /\ call' = Finished(call.pass)
            /\ UNCHANGED <<config_iter, sub_iter, cache, found>>
    /\ UNCHANGED <<commits, head, branches, tags, cold, worktree, noise, merging, mtime, now, last>>
    /\ UNCHANGED <<git_cache, lock_file, pc, exit_code, kill_pc, lost, left_alone>>
    /\ UNCHANGED <<config_file, git_config, fs, cycle_count, watch>>

GetNext == get_next

\* CachedFs::cycle: the count of the cycles; the current bucket it draws is
\* the random number list_dir's stale tells about.
cycle(count) == (count + 1) % (max_sig_ticks * 4)

\* GitRepoIter::new for the next pass over the same watch set: the cache
\* cycles and stays, the iterator starts over.
GitRepoIter_new ==
    /\ call.state = "Done" /\ call.pass < MaxPasses
    /\ cycle_count' = cycle(cycle_count)
    /\ config_iter' = 1
    /\ sub_iter' = <<>>
    /\ found' = {}
    /\ call' = NotCalled(call.pass + 1)
    /\ UNCHANGED <<commits, head, branches, tags, cold, worktree, noise, merging, mtime, now, last>>
    /\ UNCHANGED <<git_cache, lock_file, pc, exit_code, kill_pc, lost, left_alone>>
    /\ UNCHANGED <<config_file, git_config, fs, watch, cache>>

\* Passes of the iterator over a directory tree and a watch set that stay
\* as they are.
InitWalk ==
    /\ InitRepo
    /\ last = NoOperation
    /\ git_cache = FALSE
    /\ lock_file = [kind |-> "missing", pid |-> None, len |-> 0]
    /\ pc = [d \in Daemons |-> "off"]
    /\ exit_code = [d \in Daemons |-> -1]
    /\ kill_pc = "idle"
    /\ lost = [d \in Daemons |-> FALSE]
    /\ left_alone = FALSE
    /\ config_file = NoConfigFile
    /\ git_config = TestGitConfig
    /\ cycle_count = cycle(0)
    /\ fs \in Trees
    /\ watch \in Watches
    /\ config_iter = 1
    /\ sub_iter = <<>>
    /\ cache = EmptyCache
    /\ found = {}
    /\ call = NotCalled(1)

NextWalk == GetNext \/ GitRepoIter_new

SpecWalk == InitWalk /\ [][NextWalk]_vars

\* Iterator::next calls get_next until it yields or is done, and the loop
\* over the iterator calls next until it gives None: a call of get_next that
\* can be made is made.
IterWatches ==
    {w \in Watches :
        \A i \in 1..Len(w) : w[i].watch_config.include = <<>> /\ w[i].watch_config.exclude = <<>>}
InitIter == InitWalk /\ watch \in IterWatches
SpecIter == InitIter /\ [][NextWalk]_vars /\ WF_vars(GetNext)

\* --------------------------------------------- git_repo_iter.rs, the cache

\* A CachedDirIter read to its end, as the tests' iter_to_set reads it: the
\* cache after the last entry.
RECURSIVE drain(_, _)
drain(c, dir_iter) ==
    IF dir_iter.rest = <<>> THEN c
    ELSE LET read == next(c, dir_iter) IN drain(read.cache, read.dir_iter)

\* What a call of list_dir gave: a hit or a miss, for which directory.
Listed(kind, path) == [state |-> kind, path |-> path, pass |-> 1]
\* The directory made last, and when.
Made(path, time) ==
    [op |-> "mkdir", res |-> "-", dura_branch |-> <<>>, commit_hash |-> None,
     base_hash |-> None, prev |-> "-", path |-> path, time |-> time]

\* The directories of the cache runs: the temporary directory and the
\* directory r in it are listed, and repositories are made in these two.
CachePaths == {p \in Paths : Len(p) <= 2}
CacheTrees ==
    {t \in Trees : t[<<"r">>] = "dir" /\ \A p \in Paths : t[p] \in {"dir", "repo"} => p \in CachePaths}
Listable == {TMP, <<"r">>}

\* iter_to_set(fs.list_dir(path)): the listing is read to its end.
ListDir ==
    /\ \E path \in Listable, stale \in BOOLEAN :
          LET listing == list_dir(cache, fs, path, stale, now)
          IN /\ cache' = drain(listing.cache, listing.dir_iter)
             /\ found' = {listing.dir_iter.rest[i] : i \in 1..Len(listing.dir_iter.rest)}
             /\ call' = Listed(listing.dir_iter.kind, path)
    /\ UNCHANGED <<commits, head, branches, tags, cold, worktree, noise, merging, mtime, now, last>>
    /\ UNCHANGED <<git_cache, lock_file, pc, exit_code, kill_pc, lost, left_alone>>
    /\ UNCHANGED <<config_file, git_config, fs, cycle_count, watch, config_iter, sub_iter>>

\* fs.cycle()
Cycle ==
    /\ cycle_count' = cycle(cycle_count)
    /\ UNCHANGED <<commits, head, branches, tags, cold, worktree, noise, merging, mtime, now, last>>
    /\ UNCHANGED <<git_cache, lock_file, pc, exit_code, kill_pc, lost, left_alone>>
    /\ UNCHANGED <<config_file, git_config, fs, watch, config_iter, sub_iter, cache, found, call>>

\* thread::sleep: half a second passes.
Sleep ==
    /\ now < MaxLifetime + MaxSleeps
    /\ now' = now + 1
    /\ UNCHANGED <<commits, head, branches, tags, cold, worktree, noise, merging, mtime, last>>
    /\ UNCHANGED aux

\* repo_and_file!: a repository appears in a directory that is there.
MakeDir ==
    /\ \E p \in CachePaths :
          /\ fs[p] = "none"
          /\ IF parent(p) = TMP THEN TRUE ELSE fs[parent(p)] \in {"dir", "repo"}
          /\ fs' = [fs EXCEPT ![p] = "repo"]
          /\ last' = Made(p, now)
    /\ UNCHANGED <<commits, head, branches, tags, cold, worktree, noise, merging, mtime, now>>
    /\ UNCHANGED <<git_cache, lock_file, pc, exit_code, kill_pc, lost, left_alone>>
    /\ UNCHANGED <<config_file, git_config, cycle_count, watch, config_iter, sub_iter, cache,
                   found, call>>

\* A cache that has just been made over some tree, and the calls of
\* list_dir and cycle, the sleeps and the new repositories after that.
InitCache ==
    /\ InitRepo
    /\ last = NoOperation
    /\ git_cache = FALSE
    /\ lock_file = [kind |-> "missing", pid |-> None, len |-> 0]
    /\ pc = [d \in Daemons |-> "off"]
    /\ exit_code = [d \in Daemons |-> -1]
    /\ kill_pc = "idle"
    /\ lost = [d \in Daemons |-> FALSE]
    /\ left_alone = FALSE
    /\ config_file = NoConfigFile
    /\ git_config = TestGitConfig
    /\ cycle_count = 0
    /\ fs \in CacheTrees
    /\ watch = WatchOneRepo
    /\ config_iter = 1
    /\ sub_iter = <<>>
    /\ cache = EmptyCache
    /\ found = {}
    /\ call = NotCalled(1)

NextCache == ListDir \/ Cycle \/ Sleep \/ MakeDir

SpecCache == InitCache /\ [][NextCache]_vars

\* ------------------------------------- git_repo_iter.rs, the cached listings

\* The trees of the lookups: the directory r, with or without a repository
\* whose name is not valid Unicode in it; other repositories are made later.
NamePaths == Paths \cup {Raw}
NameTrees ==
    {[p \in NamePaths |-> IF p = <<"r">> THEN "dir" ELSE IF p = Raw THEN raw ELSE "none"] :
        raw \in {"none", "repo"}}

\* What a call of list_dir gave, whether the cache was disabled or the bucket
\* of the item was the current one, and what the last reads of the
\* directories gave (nothing before the first read).
Looked(kind, path, stale, reads) ==
    [state |-> kind, path |-> path, pass |-> 1, stale |-> stale, reads |-> reads]
NeverRead == [p \in Listable |-> <<>>]

\* iter_to_set(fs.list_dir(path)), the listing kept when it was read from the
\* directory.
Lookup ==
    /\ \E path \in Listable, stale \in BOOLEAN :
          LET listing == list_dir(cache, fs, path, stale, now)
              set == {listing.dir_iter.rest[i] : i \in 1..Len(listing.dir_iter.rest)}
          IN /\ cache' = drain(listing.cache, listing.dir_iter)
             /\ found' = set
             /\ call' = Looked(listing.dir_iter.kind, path, stale,
                               IF listing.dir_iter.kind = "Miss"
                               THEN [call.reads EXCEPT ![path] = <<set>>]
                               ELSE call.reads)
    /\ UNCHANGED <<commits, head, branches, tags, cold, worktree, noise, merging, mtime, now, last>>
    /\ UNCHANGED <<git_cache, lock_file, pc, exit_code, kill_pc, lost, left_alone>>
    /\ UNCHANGED <<config_file, git_config, fs, cycle_count, watch, config_iter, sub_iter>>

InitNames ==
    /\ InitRepo
    /\ last = NoOperation
    /\ git_cache = FALSE
    /\ lock_file = [kind |-> "missing", pid |-> None, len |-> 0]
    /\ pc = [d \in Daemons |-> "off"]
    /\ exit_code = [d \in Daemons |-> -1]
    /\ kill_pc = "idle"
    /\ lost = [d \in Daemons |-> FALSE]
    /\ left_alone = FALSE
    /\ config_file = NoConfigFile
    /\ git_config = TestGitConfig
    /\ cycle_count = 0
    /\ fs \in NameTrees
    /\ watch = WatchOneRepo
    /\ config_iter = 1
    /\ sub_iter = <<>>
    /\ cache = [p \in NamePaths \cup {TMP} |-> NoItem]
    /\ found = {}
    /\ call = Looked("New", TMP, FALSE, NeverRead)

NextNames == Lookup \/ Cycle \/ Sleep \/ MakeDir

SpecNames == InitNames /\ [][NextNames]_vars

\* ----------------------------------------- git_repo_iter.rs, the buckets
\* max_lifetime and expected_interval are whole seconds, 0..MaxSeconds and
\* 1..MaxSeconds. The quotient of two such f32 is the exact one rounded, and
\* it is cut to the same whole number as the exact one.
MaxSeconds == 8
U16_MAX == 65535
\* max_sig_ticks.unwrap_or(255)
DEFAULT_SIG_TICKS == 255

\* ToPrimitive::to_u16: the whole part, none when it is not a u16.
to_u16(x) == IF x >= 0 /\ x <= U16_MAX THEN <<x>> ELSE <<>>

\* CachedFs::new has not been called yet.
NewArgs(max_lifetime, expected_interval) ==
    [op |-> "args", res |-> "args", max_lifetime |-> max_lifetime,
     expected_interval |-> expected_interval, max_sig_ticks |-> 0, current_sig_tick |-> 0,
     cycle_count |-> 0, sig_invalidate |-> {}]

\* The call has panicked.
BucketPanic(f, op) == [f EXCEPT !.op = op, !.res = "panic"]

\* CachedFs::new: the assertion, the number of buckets, and the current
\* bucket drawn by gen_range(0..max_ticks), which panics on an empty range.
CachedFs_new(f) ==
    IF ~(f.max_lifetime > f.expected_interval)
    THEN {BucketPanic(f, "new")}
    ELSE LET max_sig_ticks_ == to_u16(f.max_lifetime \div (4 * f.expected_interval))
             max_ticks == IF max_sig_ticks_ = <<>> THEN DEFAULT_SIG_TICKS ELSE max_sig_ticks_[1]
         IN IF max_ticks = 0
            THEN {BucketPanic([f EXCEPT !.max_sig_ticks = max_ticks], "new")}
            ELSE {[f EXCEPT !.op = "new", !.res = "ok", !.max_sig_ticks = max_ticks,
                            !.current_sig_tick = t] : t \in 0..max_ticks - 1}

\* The whole part of i^0.9: the largest k with k^10 <= i^9.
powf09(i) == CHOOSE k \in 0..i : Pow(k, 10) <= Pow(i, 9) /\ (k = i \/ Pow(k + 1, 10) > Pow(i, 9))

\* CachedFs::gen_rand: the end of the range the current bucket is drawn
\* from, (n + |2n - i^0.9|).to_u16().unwrap_or(u16::MAX).
gen_rand(n, i) ==
    LET whole == powf09(i)
        up == IF Pow(whole, 10) = Pow(i, 9) THEN whole ELSE whole + 1
        max == to_u16(IF up <= 2 * n THEN 3 * n - up ELSE whole - n)
    IN IF max = <<>> THEN U16_MAX ELSE max[1]

\* CachedFs::cycle: max_sig_ticks * 4 is a u16 product, which panics when
\* overflow is checked and wraps when it is not; the remainder panics on a
\* zero divisor; then the current bucket is drawn.
CachedFs_cycle(f) ==
    LET product == f.max_sig_ticks * 4
        wrapped == product % (U16_MAX + 1)
        counted == [f EXCEPT !.op = "cycle", !.cycle_count = (f.cycle_count + 1) % wrapped]
    IN (IF product > U16_MAX \/ wrapped = 0 THEN {BucketPanic(f, "cycle")} ELSE {})
       \cup (IF wrapped = 0 THEN {}
             ELSE {[counted EXCEPT !.current_sig_tick = t] :
                      t \in 0..gen_rand(f.max_sig_ticks, counted.cycle_count) - 1})

\* CachedFs::get_new_cache_item: the bucket of a new entry, drawn by
\* gen_range(0..max_sig_ticks).
sig_invalidate(f) ==
    {[f EXCEPT !.op = "get_new_cache_item", !.sig_invalidate = @ \cup {t}] :
        t \in 0..f.max_sig_ticks - 1}

BucketsNew ==
    /\ last.op = "args"
    /\ last' \in CachedFs_new(last)
    /\ UNCHANGED <<commits, head, branches, tags, cold, worktree, noise, merging, mtime, now>>
    /\ UNCHANGED aux

BucketsCycle ==
    /\ last.res = "ok"
    /\ last' \in CachedFs_cycle(last)
    /\ UNCHANGED <<commits, head, branches, tags, cold, worktree, noise, merging, mtime, now>>
    /\ UNCHANGED aux

BucketsItem ==
    /\ last.res = "ok"
    /\ last' \in sig_invalidate(last)
    /\ UNCHANGED <<commits, head, branches, tags, cold, worktree, noise, merging, mtime, now>>
    /\ UNCHANGED aux

InitBuckets ==
    /\ InitRepo
    /\ InitAux
    /\ \E max_lifetime \in 0..MaxSeconds, expected_interval \in 1..MaxSeconds :
          last = NewArgs(max_lifetime, expected_interval)

NextBuckets == BucketsNew \/ BucketsCycle \/ BucketsItem

SpecBuckets == InitBuckets /\ [][NextBuckets]_vars

\* ---------------------------------------- config.rs, database.rs: the files

\* The Config values that are saved: any flag, author and email given or
\* not; no repos, r alone, or r with includes, excludes and a depth
\* together with s.
Configs ==
    [commit_exclude_git_config : BOOLEAN,
     commit_author : {<<>>, <<"dura">>},
     commit_email : {<<>>, <<"dura@github.io">>},
     repos : {<<>>, WatchOneRepo}
             \cup {w \in Watches : /\ Len(w) = 2 /\ w[2].path = <<"s">>
                                   /\ w[1].watch_config.include = <<<<"a">>>>
                                   /\ w[1].watch_config.exclude = <<<<"a", "b", "c">>>>
                                   /\ w[1].watch_config.max_depth = 0}]

\* The RuntimeLock values that are saved: no pid, the pid of a daemon or of
\* another process.
Locks == {None, OTHER_PID} \cup {id(d) : d \in Daemons}

\* RuntimeLock::load_file: serde_json::from_reader of the file.
load_file(file) == IF file.kind = "json" THEN Ok(file.pid) ELSE Err(None)

\* What a save or a load has done, with the value saved or loaded, and
\* what was done before it.
Filed(op, res, value) == [op |-> op, res |-> res, value |-> value, prev |-> last.op]

\* Config::save_to_path
Config_save_to_path ==
    /\ \E config \in Configs, fail \in BOOLEAN :
          /\ SaveConfig(config, fail)
          /\ last' = Filed("Config::save_to_path", IF fail THEN "unsaved" ELSE "saved", config)
    /\ UNCHANGED <<commits, head, branches, tags, cold, worktree, noise, merging, mtime, now>>
    /\ UNCHANGED <<git_cache, lock_file, pc, exit_code, kill_pc, lost, left_alone>>
    /\ UNCHANGED <<git_config, fs, cycle_count, watch, config_iter, sub_iter, cache, found, call>>

\* Config::load_file
Config_load_path ==
    /\ \E loaded \in {Config_load_file(config_file)} :
          last' = Filed("Config::load_file", IF loaded.ok THEN "ok" ELSE "err", loaded.value)
    /\ UNCHANGED <<commits, head, branches, tags, cold, worktree, noise, merging, mtime, now>>
    /\ UNCHANGED aux

\* RuntimeLock::save_to_path: the file is opened with create and truncate
\* and the lock written through that handle.
RuntimeLock_save_to_path ==
    /\ \E pid \in Locks :
          /\ lock_file' = to_writer(Truncated, pid)
          /\ last' = Filed("RuntimeLock::save_to_path", "saved", pid)
    /\ UNCHANGED <<commits, head, branches, tags, cold, worktree, noise, merging, mtime, now>>
    /\ UNCHANGED <<git_cache, pc, exit_code, kill_pc, lost, left_alone>>
    /\ UNCHANGED diskVars

\* RuntimeLock::load_file
RuntimeLock_load_path ==
    /\ \E loaded \in {load_file(lock_file)} :
          last' = Filed("RuntimeLock::load_file", IF loaded.ok THEN "ok" ELSE "err", loaded.value)
    /\ UNCHANGED <<commits, head, branches, tags, cold, worktree, noise, merging, mtime, now>>
    /\ UNCHANGED aux

\* Saves and loads of the two files, over whatever they hold before.
InitFiles ==
    /\ InitRepo
    /\ last = NoOperation
    /\ git_cache = FALSE
    /\ lock_file \in PriorLocks
    /\ pc = [d \in Daemons |-> "off"]
    /\ exit_code = [d \in Daemons |-> -1]
    /\ kill_pc = "idle"
    /\ lost = [d \in Daemons |-> FALSE]
    /\ left_alone = FALSE
    /\ config_file \in ConfigFiles
    /\ git_config = TestGitConfig
    /\ cycle_count = 0
    /\ fs = OneRepo
    /\ watch = WatchOneRepo
    /\ config_iter = 1
    /\ sub_iter = <<>>
    /\ cache = EmptyCache
    /\ found = {}
    /\ call = NotCalled(1)

NextFiles ==
    \/ Config_save_to_path
    \/ Config_load_path
    \/ RuntimeLock_save_to_path
    \/ RuntimeLock_load_path

SpecFiles == InitFiles /\ [][NextFiles]_vars

\* ------------------------------------------------------ poller.rs, the walk

\* poller.rs is_valid_directory: with includes, some include starts with
\* the path relative to the watched directory; else with excludes, no
\* exclude does.
relative_is_valid_directory(t, base_path, child_path, value) ==
    LET relative == SubSeq(child_path, Len(base_path) + 1, Len(child_path))
    IN  IF ~is_dir(t, child_path) THEN FALSE
        ELSE IF value.include # <<>>
        THEN \E i \in 1..Len(value.include) : starts_with(value.include[i], relative)
        ELSE IF value.exclude # <<>>
        THEN ~\E i \in 1..Len(value.exclude) : starts_with(value.exclude[i], relative)
        ELSE TRUE

\* What a walk has done: the repositories it has passed to capture, and
\* whether it panicked.
Walked(panic, repos) == [panic |-> panic, repos |-> repos]

\* process_directory, the walk: a repository is captured; any other path
\* within max_depth is read with fs::read_dir(..).unwrap() and its valid
\* children are walked in turn, up to the first panic.
RECURSIVE walk_directory(_, _, _, _, _), for_each(_, _, _, _, _)
walk_directory(t, base_path, current_path, value, depth) ==
    IF is_repo(t, current_path) THEN Walked(FALSE, {current_path})
    ELSE IF depth > value.max_depth THEN Walked(FALSE, {})
    ELSE IF ~read_dir_ok(t, current_path) THEN Walked(TRUE, {})
    ELSE for_each(t, base_path,
                  SelectSeq(read_dir(t, current_path),
                            LAMBDA child : relative_is_valid_directory(t, base_path, child, value)),
                  value, depth + 1)
for_each(t, base_path, paths, value, depth) ==
    IF paths = <<>> THEN Walked(FALSE, {})
    ELSE LET first == walk_directory(t, base_path, Head(paths), value, depth)
             rest == for_each(t, base_path, Tail(paths), value, depth)
         IN  IF first.panic THEN first
             ELSE Walked(rest.panic, first.repos \cup rest.repos)

\* do_task, the loop over config.repos from entry i on.
RECURSIVE for_repos(_, _, _)
for_repos(t, repos, i) ==
    IF i > Len(repos) THEN Walked(FALSE, {})
    ELSE LET first == walk_directory(t, repos[i].path, repos[i].path, repos[i].watch_config, 0)
             rest == for_repos(t, repos, i + 1)
         IN  IF first.panic THEN first
             ELSE Walked(rest.panic, first.repos \cup rest.repos)

\* do_task after the lock test: the watched directories are walked, the
\* repository r is captured when the walk comes to it, and a panic of the
\* walk ends the process.
walk(d, fails, limit) ==
    /\ pc[d] = "tick"
    /\ \E walked \in {for_repos(fs, watch, 1)} :
          /\ found' = walked.repos
          /\ IF <<"r">> \in walked.repos
             THEN (\E fail \in fails : capture(fail, limit)) /\ Stamp
             ELSE UNCHANGED <<commits, head, branches, tags, cold, worktree, noise, merging,
                              mtime, now, last>>
          /\ IF walked.panic
             THEN /\ pc' = [pc EXCEPT ![d] = "exited"]
                  /\ exit_code' = [exit_code EXCEPT ![d] = PANIC_EXIT_CODE]
             ELSE /\ pc' = [pc EXCEPT ![d] = "sleep"]
                  /\ UNCHANGED exit_code
    /\ UNCHANGED <<git_cache, lock_file, kill_pc, lost, left_alone>>
    /\ UNCHANGED <<config_file, git_config, fs, cycle_count, watch, config_iter, sub_iter, cache, call>>

\* The directory trees of the walk: r is a repository or a directory with
\* a and x in it, s is a repository or is gone; a directory may be locked.
WalkKindsAt(p) ==
    IF p = <<"r">> THEN {"repo", "dir"}
    ELSE IF p = <<"s">> THEN {"repo", "none"}
    ELSE IF p = <<"r", "x">> THEN {"repo", "none"}
    ELSE IF p = Chain(MaxChain) THEN {"repo", "none"}
    ELSE {"dir", "locked", "none"}
WalkTrees ==
    {t \in [Paths -> {"none", "dir", "locked", "repo"}] :
        \A p \in Paths :
            /\ t[p] \in WalkKindsAt(p)
            /\ Len(p) > 1 /\ t[p] # "none" => t[parent(p)] \in {"dir", "locked"}}

WalkWatches ==
    {<<[path |-> <<"r">>, watch_config |-> c]>> : c \in WatchSpecs}
    \cup {<<[path |-> <<"r">>, watch_config |-> c],
            [path |-> <<"s">>, watch_config |-> WatchConfig_new]>> : c \in WatchSpecs}

\* One daemon that walks the watched directories, and a user.
InitPollWalk ==
    /\ InitRepo
    /\ last = NoOperation
    /\ git_cache = FALSE
    /\ lock_file = Missing
    /\ pc = [d \in Daemons |-> "off"]
    /\ exit_code = [d \in Daemons |-> -1]
    /\ kill_pc = "idle"
    /\ lost = [d \in Daemons |-> FALSE]
    /\ left_alone = FALSE
    /\ config_file = NoConfigFile
    /\ git_config = TestGitConfig
    /\ cycle_count = 0
    /\ fs \in WalkTrees
    /\ watch \in WalkWatches
    /\ config_iter = 1
    /\ sub_iter = <<>>
    /\ cache = EmptyCache
    /\ found = {}
    /\ call = NotCalled(1)

NextPollWalk ==
    \/ start_truncate(1)
    \/ start_write(1)
    \/ do_task(1)
    \/ walk(1, Failures, MaxCommits)
    \/ EditIn(MaxCommits)

SpecPollWalk == InitPollWalk /\ [][NextPollWalk]_vars

\* ------------------------------------------------------------ properties
\* What the properties say of a repository, stated without the engine's
\* own definitions.
DuraBranch(h) == <<"dura", h>>
DuraNames == BranchNames \ {MASTER}

\* A step of the repository that is one call of capture.
CaptureStep == last'.op = "capture" /\ now' = now

\* The commits on the first-parent chain of c, c included.
RECURSIVE FirstParents(_, _)
FirstParents(cs, c) ==
    IF cs[c].parents = <<>> THEN {c} ELSE {c} \cup FirstParents(cs, cs[c].parents[1])

\* What has been snapshotted for HEAD = h: the tip of dura/<h> when it holds
\* a snapshot, else h itself.
Snapshotted(br, h) ==
    IF br[DuraBranch(h)] # None /\ br[DuraBranch(h)] # h THEN br[DuraBranch(h)] ELSE h

\* The number of commits dura/<h> is ahead of h.
Ahead(cs, br, h) ==
    IF br[DuraBranch(h)] = None THEN 0
    ELSE Cardinality(FirstParents(cs, br[DuraBranch(h)]) \ FirstParents(cs, h))

\* The status of the repository is empty.
StatusClean == worktree = commits[head].tree /\ ~noise

\* The working tree differs from what has been snapshotted.
Unsaved == worktree # commits[Snapshotted(branches, head)].tree

\* C1: a call of capture, whatever it returns, leaves HEAD, the user's
\* branch, every tag, the working tree and every snapshot branch other than
\* dura/<HEAD> as they were.
HeadPreservation ==
    [][CaptureStep =>
        /\ head' = head
        /\ \A b \in BranchNames \ {DuraBranch(head)} : branches'[b] = branches[b]
        /\ tags' = tags /\ cold' = cold
        /\ worktree' = worktree /\ merging' = merging]_vars

\* C1 witness: capture has made a snapshot while another snapshot branch
\* exists and HEAD is off the user's branch.
HeadPreservationWitness ==
    /\ last.op = "capture" /\ last.res = "some"
    /\ branches[MASTER] # head
    /\ \E b \in DuraNames \ {DuraBranch(head)} : branches[b] # None

\* C7: every existing branch dura/<oid> has <oid> on the first-parent chain
\* of its tip.
AnchorNaming ==
    \A o \in Oids :
        branches[DuraBranch(o)] # None => o \in FirstParents(commits, branches[DuraBranch(o)])

\* C7 witness: a branch anchored at a commit other than the root holds a
\* snapshot and HEAD has moved away from its anchor.
AnchorNamingWitness ==
    \E o \in Oids \ {1} :
        /\ branches[DuraBranch(o)] \notin {None, o}
        /\ head # o

\* The working tree's change is appended to dura/<HEAD> as one commit on top
\* of what was snapshotted.
Appended ==
    LET tip == branches'[DuraBranch(head)] IN
    /\ Len(commits') <= Len(commits) + 1
    /\ tip \in 1..Len(commits')
    /\ commits'[tip].parents = <<Snapshotted(branches, head)>>
    /\ commits'[tip].tree = worktree
    /\ Ahead(commits', branches', head) = Ahead(commits, branches, head) + 1

\* C8 as claimed: every capture that follows a new working-tree change
\* appends one commit to dura/<HEAD>.
ChainGrowthAnyChange ==
    [][CaptureStep /\ last'.res # "err" /\ Unsaved => Appended]_vars

\* C8 as amended: every capture that follows a new working-tree change and
\* finds a status that is not empty appends one commit to dura/<HEAD>, whose
\* single parent is HEAD for the first and the previous tip for the later
\* ones, so that the branch is one more commit ahead of HEAD.
ChainGrowth ==
    [][CaptureStep /\ last'.res # "err" /\ Unsaved /\ ~StatusClean => Appended]_vars

\* C8 witness: a snapshot was appended to a branch that is now two commits
\* ahead of HEAD.
ChainGrowthWitness ==
    /\ last.op = "capture" /\ last.res = "some"
    /\ Ahead(commits, branches, head) = 2

\* C9: a capture that follows a capture, neither failing, returns None and
\* writes no commit.
IdempotentAtRest ==
    [][last.op = "capture" /\ last.res # "err" /\ CaptureStep /\ last'.res # "err" =>
        last'.res = "none" /\ commits' = commits]_vars

\* C9 witness: capture returned None right after a capture that made a
\* snapshot.
IdempotentAtRestWitness ==
    last.op = "capture" /\ last.res = "none" /\ last.prev = "some"

\* The record capture returns for a snapshot of HEAD, and the branch it moved.
Recorded ==
    /\ last'.res = "some"
    /\ last'.dura_branch = <<"dura", head>>
    /\ last'.base_hash = head
    /\ last'.commit_hash # head
    /\ branches'[DuraBranch(head)] = last'.commit_hash
    /\ head' = head /\ merging' = merging

\* C10 as claimed: whenever the working tree differs from the tree of the
\* chosen parent, capture returns the record of a new snapshot.
CaptureRecordAnyChange ==
    [][CaptureStep /\ last'.res # "err" /\ Unsaved => Recorded]_vars

\* C10 as amended: whenever the status is not empty and the working tree
\* differs from the tree of the chosen parent, capture returns a record with
\* dura_branch = dura/<HEAD>, base_hash = HEAD and commit_hash # HEAD, and
\* dura/<HEAD> points at commit_hash; a conflicted merge makes no difference.
CaptureRecord ==
    [][CaptureStep /\ last'.res # "err" /\ Unsaved /\ ~StatusClean => Recorded]_vars

\* C10 witness: a snapshot was made during a conflicted merge.
CaptureRecordWitness ==
    last.op = "capture" /\ last.res = "some" /\ merging

\* C3: the change guard never answers false for a repository whose working
\* tree differs from what has been snapshotted (the tip of dura/<HEAD> if it
\* exists, else HEAD).
GuardNeverMissesChange == (last.op = "guard" /\ last.res = "false") => ~Unsaved

\* The tip of dura/<HEAD> is a snapshot commit with the working tree's content.
SnapshotAtTip == Snapshotted(branches, head) # head /\ ~Unsaved

AtMostOneTicking == Cardinality({d \in Daemons : pc[d] = "tick"}) <= 1

\* The commits reachable from commit c.
RECURSIVE Reachable(_, _)
Reachable(cs, c) ==
    {c} \cup UNION {Reachable(cs, cs[c].parents[i]) : i \in 1..Len(cs[c].parents)}

\* The commits reachable from the branches dura/*.
FromBranches(cs, br) ==
    UNION {Reachable(cs, br[b]) : b \in {x \in DuraNames : br[x] # None}}

\* The commits reachable from the tags dura/cold/<n> and dura/cold.
FromTags(cs, tg, cd) ==
    UNION {Reachable(cs, t) : t \in ({tg[i] : i \in TagIndices} \cup {cd}) \ {None}}

\* C2: every commit reachable from a branch dura/* before a call of
\* consolidate is reachable after it from a tag dura/cold/<n>, the tag
\* dura/cold or a branch dura/* that is left.
HistoryPreserved ==
    [][last'.op = "consolidate" =>
        FromBranches(commits, branches)
            \subseteq (FromBranches(commits', branches') \cup FromTags(commits', tags', cold'))]_vars

\* A Flat consolidation has run when the tag dura/cold/1 was there: it has
\* redone the excess bucket dura/cold/1 with a commit that was folded before,
\* added dura/cold/2 and deleted the branches.
HistoryPreservedWitness ==
    /\ last.op = "consolidate" /\ last.res = "ok"
    /\ tags[1] # None /\ tags[2] # None
    /\ Len(commits[tags[1]].parents) = 2
    /\ Range(commits[tags[2]].parents) \subseteq Range(commits[tags[1]].parents)
    /\ \A b \in DuraNames : branches[b] = None

\* The last operation was a Flat consolidation that returned Ok.
FlatReturned ==
    last.op = "consolidate" /\ last.strategy = "flat" /\ last.res = "ok"

\* The width p of the last call.
Width == last.num_parents

Ceil(n, p) == (n + p - 1) \div p

\* C11: a Flat{p} consolidation over N >= 1 eligible commits creates exactly
\* ceil(N/p) merge commits, and each of them has at least 2 and at most p
\* parents.
OctopusArity ==
    FlatReturned /\ Len(last.eligible) >= 1 =>
        /\ Len(last.ret) = Ceil(Len(last.eligible), Width)
        /\ \A i \in 1..Len(last.ret) : Len(commits[last.ret[i]].parents) \in 2..Width

\* The parents of the merge commits `ret`, one group after the other.
RECURSIVE Folded(_, _)
Folded(cs, ret) ==
    IF ret = <<>> THEN <<>> ELSE cs[Head(ret)].parents \o Folded(cs, Tail(ret))

\* No commit of the sequence is newer than the one before it.
NewestFirst(cs, oids) ==
    \A i \in 1..Len(oids) - 1 : cs[oids[i]].time >= cs[oids[i + 1]].time

\* C12: a Flat{p} consolidation that finds no tag dura/cold/<n> and N = m*p
\* eligible commits returns m merge commits of p parents each; the groups are
\* runs of commits consecutive in age, newest first inside a group and from
\* group to group; the oldest group is tagged dura/cold/1 and each newer one
\* the next number; every branch of a consolidated commit is deleted.
FlatGrouping ==
    [][/\ last'.op = "consolidate" /\ last'.strategy = "flat" /\ last'.res = "ok"
       /\ \A i \in TagIndices : tags[i] = None
       /\ last'.num_parents # 0
       /\ Len(last'.eligible) >= 1
       /\ Len(last'.eligible) % last'.num_parents = 0
       => LET p == last'.num_parents
              N == Len(last'.eligible)
              m == N \div p
              ret == last'.ret
              all == Folded(commits', ret)
          IN /\ Len(ret) = m
             /\ \A g \in 1..m : Len(commits'[ret[g]].parents) = p
             /\ Len(all) = N /\ Range(all) = Range(last'.eligible)
             /\ NewestFirst(commits', all)
             /\ \A k \in TagIndices : tags'[k] = IF k <= m THEN ret[m - k + 1] ELSE None
             /\ \A b \in DuraNames :
                    branches[b] \in Range(last'.eligible) => branches'[b] = None]_vars

\* Four snapshot branches were consolidated with p = 2 in a repository
\* without tags: dura/cold/1 is the older pair, dura/cold/2 the newer one.
FlatGroupingWitness ==
    /\ FlatReturned /\ last.num_parents = 2 /\ Len(last.eligible) = 4
    /\ Len(last.ret) = 2
    /\ tags[1] = last.ret[2] /\ tags[2] = last.ret[1] /\ tags[3] = None
    /\ \A b \in DuraNames : branches[b] = None

\* C13: when the number N of eligible commits is not a multiple of p, a Flat
\* consolidation (no tag dura/cold/<n> before it) returns one partial group,
\* made of the oldest N mod p commits, as the last element of its list; every
\* other group is exactly p wide.
PartialGroupOldest ==
    [][/\ last'.op = "consolidate" /\ last'.strategy = "flat" /\ last'.res = "ok"
       /\ \A i \in TagIndices : tags[i] = None
       /\ last'.num_parents # 0
       /\ Len(last'.eligible) % last'.num_parents # 0
       => LET p == last'.num_parents
              N == Len(last'.eligible)
              ret == last'.ret
              m == Len(ret)
              partial == Range(commits'[ret[m]].parents)
          IN /\ m = N \div p + 1
             /\ Len(commits'[ret[m]].parents) = N % p
             /\ \A g \in 1..m - 1 : Len(commits'[ret[g]].parents) = p
             /\ \A x \in partial, y \in Range(last'.eligible) \ partial :
                    commits'[x].time <= commits'[y].time]_vars

\* C14: when the highest tag dura/cold/k names a merge with fewer than p
\* parents, a successful Flat consolidation points dura/cold/k at a new merge
\* whose parents are the oldest eligible commits, as many as fit, followed by
\* the parents of the old merge; the tags above k are made only of eligible
\* commits that were not folded in, and the tags below k stay.
ExcessBucket ==
    [][/\ last'.op = "consolidate" /\ last'.strategy = "flat" /\ last'.res = "ok"
       /\ get_max_flat_node_index(tags) > 0
       /\ Len(last'.eligible) >= 1
       /\ Len(commits[tags[get_max_flat_node_index(tags)]].parents) < last'.num_parents
       => LET p == last'.num_parents
              k == get_max_flat_node_index(tags)
              old == commits[tags[k]].parents
              fit == Min(p - Len(old), Len(last'.eligible))
              new == commits'[tags'[k]].parents
              folded == Range(SubSeq(new, 1, fit))
          IN /\ Len(new) = fit + Len(old)
             /\ SubSeq(new, fit + 1, Len(new)) = old
             /\ folded \subseteq Range(last'.eligible)
             /\ NewestFirst(commits', SubSeq(new, 1, fit))
             /\ \A x \in folded, y \in Range(last'.eligible) \ folded :
                    commits'[x].time <= commits'[y].time
             /\ \A j \in TagIndices :
                    /\ j < k => tags'[j] = tags[j]
                    /\ j > k /\ tags'[j] # None =>
                          Range(commits'[tags'[j]].parents)
                              \subseteq Range(last'.eligible) \ folded]_vars

\* The commits under c: c itself and, when c is a compacted commit, what is
\* under its parents.
RECURSIVE Under(_, _)
Under(cs, c) ==
    IF cs[c].message = COMPACT_MESSAGE
    THEN {c} \cup UNION {Under(cs, cs[c].parents[i]) : i \in 1..Len(cs[c].parents)}
    ELSE {c}

SnapshotBranches == {b \in DuraNames : branches[b] # None}

\* C16: a call of consolidate leaves num_uncompressed snapshot branches with
\* the newest tips alone: they are not deleted and their tips are no parent
\* of a returned merge commit; with no more than num_uncompressed snapshot
\* branches it returns [] and writes no tag.
UncompressedUntouched ==
    [][last'.op = "consolidate" /\ last'.num_uncompressed # Absent =>
        LET u == last'.num_uncompressed
            folded == UNION {Range(commits'[last'.ret[g]].parents) : g \in 1..Len(last'.ret)}
        IN /\ \E left \in SUBSET SnapshotBranches :
                /\ Cardinality(left) = Min(u, Cardinality(SnapshotBranches))
                /\ \A k \in left, o \in SnapshotBranches \ left :
                       commits[branches[k]].time >= commits[branches[o]].time
                /\ \A k \in left : branches'[k] = branches[k] /\ branches[k] \notin folded
           /\ Cardinality(SnapshotBranches) <= u =>
                last'.ret = <<>> /\ tags' = tags /\ cold' = cold]_vars

\* The include/exclude test: C is a directory under R that no exclude
\* covers, or that lies on the way to an include.
Admitted(R, w, C) ==
    /\ fs[C] \in {"dir", "repo"}
    /\ starts_with(C, R)
    /\ \/ \A i \in 1..Len(w.exclude) : ~starts_with(C, R \o w.exclude[i])
       \/ \E i \in 1..Len(w.include) : starts_with(R \o w.include[i], C)

\* The repositories reachable from the watch root R within max_depth: at
\* most max_depth levels below R, admitted, and below directories that are
\* admitted and are no repositories themselves.
Discoverable(R, w) ==
    {C \in Paths :
        /\ fs[C] = "repo"
        /\ starts_with(C, R)
        /\ Len(C) - Len(R) <= w.max_depth
        /\ \A k \in Len(R)..Len(C) : Admitted(R, w, SubSeq(C, 1, k))
        /\ \A k \in Len(R)..Len(C) - 1 : fs[SubSeq(C, 1, k)] = "dir"}

\* C17: a pass of the iterator yields a path if and only if it is a
\* repository reachable from some watch root within the root's max_depth
\* and admitted by its include/exclude test.
DiscoveryAdmissible ==
    call.state = "Done" =>
        found = UNION {Discoverable(watch[i].path, watch[i].watch_config) : i \in 1..Len(watch)}

\* A pass is over that has found, from the root r with the default
\* configuration, the repositories r/x and r/a/b/c.
DiscoveryAdmissibleWitness ==
    /\ call.state = "Done"
    /\ watch = <<[path |-> <<"r">>, watch_config |-> WatchConfig_new]>>
    /\ fs[<<"r">>] = "dir" /\ fs[<<"r", "a", "b">>] = "dir"
    /\ found = {<<"r", "x">>, <<"r", "a", "b", "c">>}

\* The watch entry of the root r excludes a and includes a/b/c with the
\* given max_depth, the repository r/a/b/c lies below the plain directories
\* r, r/a and r/a/b, and no other watch root is above it.
ReInclude(max_depth) ==
    /\ call.state = "Done"
    /\ watch[1] = [path |-> <<"r">>,
                   watch_config |-> [include |-> <<<<"a", "b", "c">>>>, exclude |-> <<<<"a">>>>,
                                     max_depth |-> max_depth]]
    /\ \A i \in 2..Len(watch) : ~starts_with(<<"r", "a", "b", "c">>, watch[i].path)
    /\ fs[<<"r">>] = "dir" /\ fs[<<"r", "a">>] = "dir" /\ fs[<<"r", "a", "b">>] = "dir"
    /\ fs[<<"r", "a", "b", "c">>] = "repo"

\* C18 as stated: with max_depth = 2, exclude = ["a"] and include =
\* ["a/b/c"] the repository at r/a/b/c is yielded.
ReIncludeAtDepthTwo ==
    ReInclude(2) => <<"r", "a", "b", "c">> \in found

\* C18: with exclude = ["a"] and include = ["a/b/c"] the repository at
\* r/a/b/c is yielded exactly when max_depth is at least 3: the include
\* overrides the exclude, not the depth limit.
ReIncludeOverridesExclude ==
    \A max_depth \in Depths :
        ReInclude(max_depth) => (<<"r", "a", "b", "c">> \in found <=> max_depth >= 3)

\* A pass with max_depth = 3 that has yielded the re-included repository.
ReIncludeOverridesExcludeWitness ==
    ReInclude(3) /\ <<"r", "a", "b", "c">> \in found

NoLock(file) == file.kind # "json"
NoConfig(file) == file.kind # "toml" \/ file.doc.repos = <<>>

\* C20: loading never fails: RuntimeLock::load returns a lock with no pid
\* and Config::load returns the empty configuration whenever the file is
\* missing or cannot be parsed, and neither load creates or modifies a file.
LoadNeverFails ==
    [][/\ last' # last /\ last'.op = "RuntimeLock::load" =>
            /\ lock_file' = lock_file /\ config_file' = config_file
            /\ last'.res = "ok"
            /\ NoLock(lock_file) => last'.value = None
       /\ last' # last /\ last'.op = "Config::load" =>
            /\ lock_file' = lock_file /\ config_file' = config_file
            /\ last'.res = "ok"
            /\ NoConfig(config_file) => last'.value = Config_empty]_vars

\* Config::load has returned the empty configuration for a TOML document
\* that names an author and no repos, and the lock file is still missing.
LoadNeverFailsWitness ==
    /\ last.op = "Config::load" /\ last.res = "ok" /\ last.value = Config_empty
    /\ config_file.kind = "toml" /\ config_file.doc.repos = <<>>
    /\ config_file.doc.commit_author # <<>>
    /\ lock_file = Missing

\* The watch set a command finds in the file and the one it leaves.
WatchSet(file) == Config_load(file).value.repos

\* A command has saved the watch set and every entry but the one of the
\* path it names is as before.
OthersUnchanged ==
    \A q \in Paths : q # last'.path => get(WatchSet(config_file'), q) = get(WatchSet(config_file), q)

\* C21 as stated: after `watch DIR` with the specification W the watch set
\* maps the canonical path of DIR to W, watched before or not, and every
\* other entry is unchanged.
WatchReplaces ==
    [][last' # last /\ last'.op = "watch" /\ last'.res = "saved" =>
          /\ get(WatchSet(config_file'), last'.path) = <<last'.cfg>>
          /\ OthersUnchanged]_vars

\* C21: after `watch DIR` with the specification W the watch set maps the
\* canonical path of DIR to W when DIR was not watched and to the
\* specification it had when it was; every other entry is unchanged.
WatchAdds ==
    [][last' # last /\ last'.op = "watch" /\ last'.res = "saved" =>
          /\ get(WatchSet(config_file'), last'.path) =
                IF contains_key(WatchSet(config_file), last'.path)
                THEN get(WatchSet(config_file), last'.path)
                ELSE <<last'.cfg>>
          /\ OthersUnchanged]_vars

\* r/a, named as r/x/../a, was added with a specification of its own to a
\* watch set that holds r and s.
WatchAddsWitness ==
    /\ last.op = "watch" /\ last.res = "saved" /\ last.path = <<"r", "a">>
    /\ last.cfg # WatchConfig_new
    /\ LET repos == WatchSet(config_file)
       IN  /\ Len(repos) = 3
           /\ repos[1].path = <<"r">> /\ repos[2].path = <<"r", "a">> /\ repos[3].path = <<"s">>
           /\ repos[2].watch_config = last.cfg
           /\ repos[1].watch_config = WatchConfig_new

\* The identity override of the configuration file for a key, <<>> when
\* there is none, and whether the file turns the repository's identity off.
Override(file, key) == IF NoConfig(file) THEN <<>> ELSE file.doc[key]
Excluded(file) == ~NoConfig(file) /\ file.doc.commit_exclude_git_config = <<TRUE>>

\* The identity by the priority: override, the repository's own unless
\* excluded, default.
Identity(override, own, excluded, default) ==
    IF override # <<>> THEN override[1]
    ELSE IF own # <<>> /\ ~excluded THEN own[1]
    ELSE default

\* C22: the author name and the email of a snapshot commit are each the
\* override of the dura configuration if set, else the repository's
\* user.name / user.email if set and commit_exclude_git_config is false,
\* else "dura" / "dura@github.io".
SignaturePriority ==
    [][last' # last /\ last'.op = "get_committer" /\ last'.git_ok =>
          /\ last'.name = Identity(Override(config_file, "commit_author"), git_config.user_name,
                                   Excluded(config_file), "dura")
          /\ last'.email = Identity(Override(config_file, "commit_email"), git_config.user_email,
                                    Excluded(config_file), "dura@github.io")]_vars

\* A signature with the name of the override and the email of the
\* repository: the configuration sets commit_author only.
SignaturePriorityWitness ==
    /\ last.op = "get_committer" /\ last.git_ok
    /\ last.name = "dura" /\ last.email = "git@someemail.com"
    /\ config_file.kind = "toml" /\ config_file.doc.commit_author = <<"dura">>
    /\ config_file.doc.commit_exclude_git_config # <<TRUE>>
    /\ git_config.user_name = <<"git-author">>

\* C23: no failure while processing a repository terminates the daemon or
\* stops the tick: the tick ends with the repository's Snapshot record
\* (a snapshot, nothing, or an error value) and the daemon sleeps until
\* the next one; it exits only from do_task's lock test, with code 1.
TickSurvives ==
    [][\A d \in Daemons :
          /\ pc[d] = "tick" /\ pc'[d] # "tick" =>
                pc'[d] = "sleep" /\ last'.res \in {"some", "none", "err"}
          /\ pc'[d] = "exited" => exit_code'[d] = 1]_vars

\* The tree as a walk sees it when a directory that cannot be read lists
\* nothing: the directory is empty.
Pruned(t) ==
    [p \in Paths |->
        IF \E k \in 1..Len(p) - 1 : ~read_dir_ok(t, SubSeq(p, 1, k)) THEN "none"
        ELSE IF t[p] = "locked" THEN "dir"
        ELSE t[p]]

\* C24: a read_dir failure on a directory yields an empty listing for that
\* directory only: the pass goes on to its end, and every repository
\* reachable through other directories and other watch roots is visited.
ReadDirFailureIsEmpty ==
    [][\A d \in Daemons :
          pc[d] = "tick" /\ pc'[d] # "tick" =>
              /\ pc'[d] = "sleep"
              /\ found' = for_repos(Pruned(fs), watch, 1).repos]_vars

\* A call of list_dir: none of the other steps of the cache runs.
ListDirStep ==
    /\ now' = now /\ fs' = fs /\ cycle_count' = cycle_count
    /\ call'.state \in {"Hit", "Miss"}

\* C25: no list_dir call is answered from a cached listing that was read
\* more than max_lifetime earlier (the items of a listing run out
\* max_lifetime after it was read), so a directory made at time t is in the
\* listing of its parent for every lookup after t + max_lifetime, whatever
\* cycle() and list_dir calls came before.
BoundedStaleness ==
    [][ListDirStep =>
          /\ call'.state = "Hit" /\ cache[call'.path].listed =>
                now - (cache[call'.path].ttl - MaxLifetime) <= MaxLifetime
          /\ /\ last.op = "mkdir"
             /\ parent(last.path) = call'.path
             /\ now > last.time + MaxLifetime
             => last.path \in found']_vars

\* A hit after max_lifetime has passed since a repository was made: the
\* listing has been read again in between and holds the repository.
BoundedStalenessWitness ==
    /\ last.op = "mkdir"
    /\ call.state = "Hit"
    /\ call.path = parent(last.path)
    /\ now > last.time + MaxLifetime
    /\ last.path \in found
    /\ cycle_count > 0

\* The commit whose time the guard is to compare with: the tip of
\* dura/<HEAD> when that branch is there, else HEAD.
WatermarkCommit(br, h) == IF br[<<"dura", h>>] # None THEN br[<<"dura", h>>] ELSE h
\* By how many half seconds the newest file is newer than the whole second
\* of that commit.
Newer(cs, br, h, modified) == modified - 2 * cs[WatermarkCommit(br, h)].time

\* C26: the watermark is the commit time of the tip of dura/<HEAD> when the
\* branch exists and of HEAD otherwise, as they are at the call: the guard
\* answers true exactly when the newest file is more than one second newer
\* than it, and right after a commit of the user or a snapshot the newest
\* file is not, so the guard answers false until a file is modified.
WatermarkFollowsSnapshots ==
    [][/\ last' # last /\ last'.op = "guard" =>
             last'.res = IF Newer(commits, branches, head, mtime) > 2 THEN "true" ELSE "false"
       /\ \/ last'.op = "capture" /\ last'.res = "some"
          \/ last'.op = "user" /\ commits' # commits
          => Newer(commits', branches', head', mtime') <= 2]_vars

\* The guard has answered false with a file more than a second newer than
\* HEAD: the watermark was the snapshot on dura/<HEAD>.
WatermarkFollowsSnapshotsWitness ==
    /\ last.op = "guard" /\ last.res = "false"
    /\ branches[<<"dura", head>>] # None
    /\ mtime - 2 * commits[head].time > 2

ReturnsNone == last'.op = "capture" /\ last'.res = "none"

\* C28 as stated: whenever capture returns None it has created no commit
\* and has left every ref as it was, an existing dura/<HEAD> whose tip is
\* HEAD included.
NoneLeavesEveryRef ==
    [][ReturnsNone =>
          /\ commits' = commits /\ head' = head /\ tags' = tags /\ cold' = cold
          /\ branches' = branches]_vars

\* C28: whenever capture returns None it has created no commit and has
\* left every ref as it was, but for a dura/<HEAD> whose tip is HEAD: with
\* a status that is not empty that branch is deleted before the delta is
\* looked at; with an empty status no ref changes.
NoneLeavesSnapshots ==
    [][ReturnsNone =>
          /\ commits' = commits /\ head' = head /\ tags' = tags /\ cold' = cold
          /\ \A b \in BranchNames :
                \/ branches'[b] = branches[b]
                \/ /\ b = <<"dura", head>> /\ branches[b] = head /\ branches'[b] = None
                   /\ ~(worktree = Tree(head) /\ ~noise)]_vars

\* capture has returned None on a status that is not empty with nothing to
\* add to the tree of HEAD: dura/<HEAD> is not there, and the snapshots
\* made on other commits are.
NoneLeavesSnapshotsWitness ==
    /\ last.op = "capture" /\ last.res = "none"
    /\ noise /\ worktree = Tree(head)
    /\ branches[<<"dura", head>>] = None
    /\ \E b \in BranchNames : b # MASTER /\ branches[b] \notin {None, b[2]}

RestartIdempotent ==
    [][/\ last.op = "consolidate" /\ last'.op = "consolidate"
       /\ last'.given = last.given /\ last'.num_uncompressed = last.num_uncompressed
       /\ last'.res = "ok"
       => /\ last.res = "ok" =>
                last'.ret = <<>> /\ tags' = tags /\ cold' = cold /\ branches' = branches
          /\ last.res = "err" /\ last.completed.known =>
                tags' = last.completed.tags /\ branches' = last.completed.branches]_vars

\* C31: a successful Flat consolidation re-points no tag dura/cold/<n> but
\* the highest one, and that one only when its merge has fewer than
\* num_parents parents; a merge commit it returns that is under no tag that
\* was there before gets an index above every index there was.
FlatIndicesGrow ==
    [][/\ last'.op = "consolidate" /\ last'.strategy = "flat" /\ last'.res = "ok"
       /\ last'.ret # <<>>
       => LET k == get_max_flat_node_index(tags)
              room == k > 0 /\ Len(commits[tags[k]].parents) < last'.num_parents
          IN /\ \A i \in TagIndices :
                    tags[i] # None /\ ~(i = k /\ room) => tags'[i] = tags[i]
             /\ \A i \in TagIndices :
                    tags'[i] # tags[i] /\ ~(i = k /\ room) => i > k]_vars

\* C32: a Tree consolidation of at most num_parents^MAX_TREE_HEIGHT eligible
\* commits does not end in the recursion-depth failure.
TreeHeight ==
    last.op = "consolidate" /\ last.strategy = "tree" /\ last.res = "panic"
        => last.eligible > Pow(last.num_parents, MAX_TREE_HEIGHT)

\* A call of list_dir in the runs of the cached listings.
LookupStep ==
    /\ now' = now /\ fs' = fs /\ cycle_count' = cycle_count
    /\ call'.state \in {"Hit", "Miss"}

\* C33: list_dir reads the directory if and only if the cache is disabled or
\* the bucket of the item is the current one, or there is no item, or the
\* item has no listing, or its time has run out; in every other case it
\* gives the entries that the last read of the directory gave.
ListDirRefines ==
    [][LookupStep =>
          LET item == cache[call'.path]
          IN /\ call'.state = "Miss" <=>
                    \/ call'.stale
                    \/ ~item.present
                    \/ ~item.listed
                    \/ item.ttl < now
             /\ call'.state = "Hit" =>
                    /\ call.reads[call'.path] # <<>>
                    /\ found' = call.reads[call'.path][1]]_vars

\* C34: within a tick capture is called for a repository only after the
\* change guard was asked about it in the same tick and answered true.
GuardedCapture ==
    [][\A d \in Daemons :
          pc[d] = "tick" /\ pc'[d] # "tick" /\ last'.op = "capture"
              => last.op = "guard" /\ last.res = "true"]_vars

\* One path is the other or lies below it.
Below(p, q) == starts_with(p, q)

\* C35: within the walk of one watch root no yielded path lies below another
\* yielded path, and no directory at or below a yielded repository is listed.
SubtreeNotExplored ==
    [][/\ call'.state = "Yield" /\ call' # call =>
             LET R == sub_iter[Len(sub_iter)].base_path
                 C == call'.path
             IN \A q \in found :
                    starts_with(q, R) /\ q # C => ~Below(C, q) /\ ~Below(q, C)
       /\ Len(sub_iter') = Len(sub_iter) + 1 =>
             LET F == sub_iter'[Len(sub_iter')]
             IN \A q \in found' :
                    starts_with(q, F.base_path) => ~Below(F.dir_iter.dir, q)]_vars

\* A pass is over in which a repository was yielded that has a repository
\* inside it, and the one inside was not.
SubtreeNotExploredWitness ==
    /\ call.state = "Done"
    /\ \E q \in found, p \in Paths :
          /\ fs[p] = "repo" /\ Below(p, q) /\ p # q
          /\ p \notin found
          /\ \A i \in 1..Len(watch) :
                starts_with(p, watch[i].path) /\ Len(p) - Len(watch[i].path) <= watch[i].watch_config.max_depth

\* C36: the stack of the iterator holds max_depth + 1 frames at most, all of
\* the root that is walked, and is empty when the next root is taken; every
\* pass comes to its end, and once the iterator is done it stays done.
IteratorTerminates ==
    /\ [](sub_iter # <<>> =>
            /\ Len(sub_iter) <= sub_iter[1].watch_config.max_depth + 1
            /\ \A i \in 1..Len(sub_iter) : sub_iter[i].base_path = sub_iter[1].base_path)
    /\ [][config_iter' > config_iter => sub_iter = <<>>]_vars
    /\ [][call.state = "Done" /\ call'.pass = call.pass =>
             call'.state = "Done" /\ found' = found /\ sub_iter' = <<>>]_vars
    /\ \A n \in 1..MaxPasses : (call.pass = n) ~> (call.pass = n /\ call.state = "Done")

\* The stack is full under a root whose max_depth is neither 0 nor the
\* default, and the iterator is in its second pass.
IteratorTerminatesWitness ==
    /\ sub_iter # <<>>
    /\ sub_iter[1].watch_config.max_depth \in 1..MaxChain
    /\ Len(sub_iter) = sub_iter[1].watch_config.max_depth + 1
    /\ call.pass = MaxPasses

\* C37: a load that runs while a save of the runtime lock is under way (the
\* file is opened, the record not yet written) returns the record stored
\* before the save or the record that is being saved.
AtomicReplace ==
    [][/\ \A d \in Daemons :
             pc[d] = "off" /\ pc'[d] = "start" => load(lock_file') \in {load(lock_file), id(d)}
       /\ kill_pc = "idle" /\ kill_pc' = "truncated" =>
             load(lock_file') \in {load(lock_file), None}]_vars

\* C38: every eligible commit of a successful Flat consolidation is a parent
\* of exactly one of the merge commits the call returns, once.
FoldedOnce ==
    [][/\ last'.op = "consolidate" /\ last'.strategy = "flat" /\ last'.res = "ok"
       /\ last'.ret # <<>>
       => \A e \in Range(last'.eligible) :
             Cardinality({<<g, i>> \in (1..Len(last'.ret)) \X (1..Len(commits')) :
                             /\ i <= Len(commits'[last'.ret[g]].parents)
                             /\ commits'[last'.ret[g]].parents[i] = e}) = 1]_vars

\* C39: whenever max_lifetime > expected_interval, CachedFs::new succeeds
\* with B = floor(max_lifetime / (4 * expected_interval)) >= 1 buckets and a
\* current bucket in [0, B), every entry's bucket is in [0, B), and cycle
\* keeps cycle_count in [0, 4B) and does not panic; otherwise new panics.
BucketsInRange ==
    LET B == last.max_lifetime \div (4 * last.expected_interval)
    IN IF last.max_lifetime > last.expected_interval
       THEN /\ last.res \in {"args", "ok"}
            /\ last.res = "ok" =>
                  /\ last.max_sig_ticks = B /\ B >= 1
                  /\ last.op = "new" => last.current_sig_tick \in 0..B - 1
                  /\ last.sig_invalidate \subseteq 0..B - 1
                  /\ last.cycle_count \in 0..4 * B - 1
       ELSE last.res \in {"args", "panic"}

\* C40: when two watch/unwatch commands for different directories have run,
\* concurrently or not, the watch set in the configuration file reflects
\* both: a directory given to watch is in it, one given to unwatch is not.
EditsNotLost ==
    last.op = "commands" /\ (\A c \in Commands : last.of[c].pc = "done")
    => \A c \in Commands :
          contains_key(Config_load(config_file).value.repos, last.of[c].path)
              <=> last.of[c].op = "watch"

====
